---- MODULE Spec2Model ----
(***************************************************************************)
(* Verification model of the ingestion / retrieval core of sentio-vnext:   *)
(*   - JinaEmbedder            src/core/embeddings/providers/jina.py       *)
(*   - QdrantStore             src/core/vector_store/qdrant_store.py       *)
(*   - DocumentIngestor        src/core/ingest/ingest.py                   *)
(* The specifications share the variables: SpecEmbed and SpecRetry drive   *)
(* the embedder, SpecStore the vector store, SpecIngest the ingestor.       *)
(***************************************************************************)
EXTENDS Integers, Sequences, FiniteSets, TLC

\* ------------------------------------------------------------------ bounds
\* longest list of texts handed to one embed call
MaxTexts == 3
\* largest batch_size an embedder is constructed with
MaxBatchSize == 2
\* largest max_retries an embedder is constructed with
MaxRetriesSetting == 3
\* longest list of texts handed to one add_texts call
MaxPoints == 2
\* largest k of a similarity search
MaxK == 2
\* ingest_documents calls on one DocumentIngestor
MaxCalls == 2

\* ------------------------------------------------------- program constants
\* the argument of the @_retry(3) decorator of _execute_async_request
RetryAttempts == 3
\* the default of JinaEmbedder.__init__'s max_retries
DefaultMaxRetries == 3
\* the default of JinaEmbedder.__init__'s batch_size
DefaultBatchSize == 100

\* Python's None, where a string is expected (a cache miss, an absent value)
None == "None"

\* the texts and the vectors of the model
Texts == {"t1", "t2"}
Vectors == {"v1", "v2"}
\* vector sizes: the Jina dimensions 512 and 1024
Dims == {512, 1024}
\* the dimension of the active embedder: KNOWN_MODEL_DIMENSIONS[model_name]
EmbedderDimension == 1024
\* metadata dicts and filter dicts, as sets of <<key, value>> pairs
EmptyDict == {}
Metadatas == {EmptyDict, {<<"source", "A">>}}
\* the values of a flat equality condition, and filter dicts that are not
\* flat: a list-valued condition (an OR of values) and a nested one (a range)
ScalarValues == {"A"}
NonFlatFilters == {{<<"source", "[A, B]">>}, {<<"source", "{gte: A}">>}}
Filters == Metadatas \cup NonFlatFilters
\* ids a caller passes to add_texts; "1" is also a positional id
CallerIds == {"1"}
\* the ids add_embeddings gives by position: str(i)
PositionalIds == {ToString(i) : i \in 0..(MaxPoints - 1)}
StoreIds == CallerIds \cup PositionalIds
\* the ids of the chunks the chunker produces, and the metadata of a chunk
ChunkIds == {"c1", "c2"}
ChunkMetadata == {<<"source", "A">>}
\* the texts of the chunks
ChunkTexts == {"t1", "t2"}
AllPointIds == StoreIds \cup ChunkIds

SeqsUpTo(S, n) == UNION {[1..k -> S] : k \in 0..n}
Range(s) == {s[i] : i \in DOMAIN s}
Min(a, b) == IF a <= b THEN a ELSE b

VARIABLES
    \* ---- JinaEmbedder
    cache,              \* the embedding cache: text -> vector or None
    max_retries,        \* self.max_retries
    batch_size,         \* self.batch_size
    epc,                \* position of the running embed call
    mode,               \* "many" (embed_async_many) or "single" (embed_async_single)
    texts,              \* argument of the call
    cached_results,     \* local cached_results
    uncached_texts,     \* local uncached_texts
    batch_i,            \* loop variable i of the batching loop (0-based offset)
    batched_embeddings, \* local batched_embeddings
    attempts,           \* attempts started for the batch in flight (the last batch, once done)
    result,             \* the value returned by the call
    error,              \* the exception raised by the call, or "none"
    requests,           \* the batches this call has sent to the service, in order
    computed,           \* texts the service has embedded so far (embedder lifetime)
    recomputed,         \* texts this call had embedded that were embedded before
    failure_kind,       \* how the last attempt of the batch in flight failed, or "none"
    cache_before,       \* the cache when the running call began
    api_key,            \* self.api_key is not empty
    allow_empty_api_key, \* self.allow_empty_api_key
    network_sent        \* a request was sent to the remote service (embedder lifetime)

    ,
    \* ---- the Qdrant server
    collection_exists,  \* whether the collection exists on the server
    collection_size,    \* its vector size (0 while it does not exist)
    points,             \* its points: records [id, vector, payload]
    \* ---- QdrantStore
    store_state,        \* "none" (not constructed), "ready", "failed"
    vector_size,        \* self.vector_size
    has_embedding,      \* self.embedding is not None
    store_ret,          \* what the running store operation returned or raised
    last_write,         \* id -> the vector and payload last upserted for it
    superseded,         \* ids whose point an upsert replaced by a different one
    upsert_sent         \* an upsert request was sent to the collection

    ,
    \* ---- DocumentIngestor (self.vector_store is the QdrantStore above)
    chunking_strategy,  \* self.chunking_strategy
    ing_chunker,        \* self.chunker is not None
    ing_embedder,       \* self.embedder is not None
    stats,              \* self._stats
    ipc,                \* position of the running ingest_documents call
    chunks,             \* local chunks
    ierror,             \* the exception the call raised, or "none"
    ingest_calls,       \* ingest_documents calls made so far
    points_before,      \* the points of the index when the call began
    call_upserts,       \* upsert requests the call has issued
    embed_failed,       \* the embed stage of the call failed
    data_dir,           \* argument data_dir of the running call
    stage_log,          \* the stages the call has run, in order, with their outcomes
    stats_before,       \* the stats when the call began
    last_outcome,       \* how the last finished call ended: "ok" or the failed stage
    cleared,            \* a clear was run since the last ingest call began
    call_is_reference,  \* the call ingests the reference corpus, right after a clear
    first_count,        \* points in the index after the first such call, or -1

    \* ---- the API application (api/app.py)
    app_vector_store,   \* the global _vector_store is not None
    clear_ret,          \* what the running clear_collection handler answers, or "none"
    clear_before,       \* the collection [exists, size] when that handler began
    app_ingestor,       \* the global _ingestor is not None
    api_call,           \* the request the running embed_document or health handler serves
    api_resp,           \* what that handler answers, once it has

    \* ---- concurrent embed_async_many calls on the one embedder
    calls,              \* per task: its position and the locals of its call
    calls_started,      \* calls the tasks have started so far
    served,             \* the <<text, vector>> pairs the service has returned

    \* ---- chunk_text of the upload page (ui/streamlit_app.py)
    ui_pc,              \* "idle", or "done" once chunk_text has returned
    ui_text,            \* the text argument, a sequence of characters
    ui_max_size,        \* the max_size argument
    ui_chunks,          \* the chunks returned

    \* ---- the answer generator (core/llm/generator.py)
    gpc,                \* position of the running generate_for_state / astream_for_state
    gstate,             \* the RAGState of the call
    stream,             \* the chunks the provider's stream has still to deliver
    buffer,             \* the buffer of astream_for_state
    yielded,            \* the responses of the states yielded so far, in order
    received,           \* the content fragments the stream has delivered, concatenated
    adapter_calls,      \* chat_completion calls made by the running call
    gfailure,           \* what failed inside the call: "none", "adapter", "stream", "content"
    graised             \* the call raised to its caller

evars == <<cache, max_retries, batch_size, epc, mode, texts, cached_results,
           uncached_texts, batch_i, batched_embeddings, attempts, result, error,
           requests, computed, recomputed, failure_kind, cache_before,
           api_key, allow_empty_api_key, network_sent>>

xvars == <<collection_exists, collection_size, points, last_write, superseded,
           upsert_sent>>

svars == <<store_state, vector_size, has_embedding, store_ret>>

ivars == <<chunking_strategy, ing_chunker, ing_embedder, stats, ipc, chunks, ierror, ingest_calls,
           points_before, call_upserts, embed_failed, data_dir, stage_log,
           stats_before, last_outcome, cleared, call_is_reference, first_count>>

avars == <<app_vector_store, clear_ret, clear_before, app_ingestor, api_call, api_resp>>

cvars == <<calls, calls_started, served>>

uvars == <<ui_pc, ui_text, ui_max_size, ui_chunks>>

gvars == <<gpc, gstate, stream, buffer, yielded, received, adapter_calls, gfailure,
           graised>>

vars == <<evars, xvars, svars, ivars, avars, cvars, uvars, gvars>>

\* ================================================================ embedder
\* BaseEmbedder._check_cache / _store_cache: a memo keyed by the text
CheckCache(c, t) == c[t]
StoreCacheNever(c, t, v) == c
StoreCache(c, t, v) == [c EXCEPT ![t] = v]

\* cached_results = [self._check_cache(text) for text in texts]
CachedResults(c, ts) == [i \in 1..Len(ts) |-> CheckCache(c, ts[i])]

AllIndices(cr) == [i \in 1..Len(cr) |-> i]
\* uncached_indices = [i for i, c in enumerate(cached_results) if c is None]
UncachedIndices(cr) == SelectSeq([i \in 1..Len(cr) |-> i], LAMBDA i : cr[i] = None)

\* uncached_texts = [texts[i] for i in uncached_indices]
UncachedTexts(ts, ui) == [j \in 1..Len(ui) |-> ts[ui[j]]]

BatchOversized(ut, i, bs) == SubSeq(ut, i + 1, Len(ut))
\* batch = uncached_texts[i : i + self.batch_size]
Batch(ut, i, bs) == SubSeq(ut, i + 1, Min(i + bs, Len(ut)))

FreshIdxStuck(fresh_idx) == fresh_idx
\* fresh_idx += 1
NextFreshIdx(fresh_idx) == fresh_idx + 1

\* the merge loop of embed_async_many: acc = [result, cache]
RECURSIVE MergeFrom(_, _, _, _, _, _)
MergeFrom(ts, cr, be, i, fresh_idx, acc) ==
    IF i > Len(ts) THEN acc
    ELSE IF cr[i] # None
         THEN MergeFrom(ts, cr, be, i + 1, fresh_idx,
                        [acc EXCEPT !.result = Append(@, cr[i])])
         ELSE MergeFrom(ts, cr, be, i + 1, NextFreshIdx(fresh_idx),
                        [result |-> Append(acc.result, be[fresh_idx]),
                         cache  |-> StoreCache(acc.cache, ts[i], be[fresh_idx])])

Merge(ts, cr, be, c) == MergeFrom(ts, cr, be, 1, 1, [result |-> <<>>, cache |-> c])

CacheAfterBatchEager(c, batch, vecs) ==
    [t \in DOMAIN c |->
        IF \E i \in DOMAIN batch : batch[i] = t
        THEN vecs[CHOOSE i \in DOMAIN batch : batch[i] = t]
        ELSE c[t]]
\* batched_embeddings.extend(await self._get_embeddings(batch)): the batch
\* loop collects the vectors and writes nothing to the cache
CacheAfterBatch(c, batch, vecs) == c

RetryAlways(kind, made) == made < RetryAttempts
RetryNever(kind, made) == FALSE
\* _retry(n): a failed attempt is tried again while it is transient and fewer
\* than n attempts were made
RetryAgain(kind, made) == kind = "transient" /\ made < RetryAttempts

Duplicates(s) == {s[i] : i \in {k \in DOMAIN s : \E j \in DOMAIN s : j # k /\ s[j] = s[k]}}

\* the fields of an embedder that has made no call; state: "new" before
\* __init__ has run, "idle" after it
EmbedFields(state, retries, sizes, keys) ==
    /\ cache = [t \in Texts |-> None]
    /\ max_retries \in retries
    /\ batch_size \in sizes
    /\ api_key \in keys
    /\ allow_empty_api_key = TRUE
    /\ network_sent = FALSE
    /\ epc = state
    /\ mode = "many"
    /\ texts = <<>>
    /\ cached_results = <<>>
    /\ uncached_texts = <<>>
    /\ batch_i = 0
    /\ batched_embeddings = <<>>
    /\ attempts = 0
    /\ result = <<>>
    /\ error = "none"
    /\ requests = <<>>
    /\ computed = {}
    /\ recomputed = {}
    /\ failure_kind = "none"
    /\ cache_before = cache

\* the state after JinaEmbedder.__init__ with an api key
EmbedInitWith(retries, sizes) == EmbedFields("idle", retries, sizes, {TRUE})

\* an embedder of the default max_retries and some batch_size
EmbedInit == EmbedInitWith({DefaultMaxRetries}, 1..MaxBatchSize)

\* get_embedder(name): an embedder of the default settings
GetEmbedderInit == EmbedInitWith({DefaultMaxRetries}, {DefaultBatchSize})

\* embed_async_many up to its first suspension point (the first request, if any)
EmbedAsyncManyCall(ts) ==
    /\ epc = "idle"
    /\ mode' = "many"
    /\ texts' = ts
    /\ error' = "none"
    /\ batch_i' = 0
    /\ batched_embeddings' = <<>>
    /\ recomputed' = {}
    /\ failure_kind' = "none"
    /\ cache_before' = cache
    /\ LET cr == CachedResults(cache, ts) IN
       IF ts = <<>>
       THEN /\ cached_results' = <<>>
            /\ uncached_texts' = <<>>
            /\ requests' = <<>>
            /\ attempts' = 0
            /\ result' = <<>>
            /\ epc' = "done"
       ELSE IF \A i \in 1..Len(ts) : cr[i] # None
       THEN /\ cached_results' = cr
            /\ uncached_texts' = <<>>
            /\ requests' = <<>>
            /\ attempts' = 0
            /\ result' = cr
            /\ epc' = "done"
       ELSE LET ut == UncachedTexts(ts, UncachedIndices(cr)) IN
            /\ cached_results' = cr
            /\ uncached_texts' = ut
            /\ requests' = <<Batch(ut, 0, batch_size)>>
            /\ attempts' = 1
            /\ result' = <<>>
            /\ epc' = "request"
    /\ UNCHANGED <<cache, max_retries, batch_size, computed, api_key,
                   allow_empty_api_key, network_sent>>

EmbedAsyncMany(ts) == EmbedAsyncManyCall(ts) /\ UNCHANGED <<xvars, svars, ivars, avars, cvars, uvars, gvars>>

\* embed_async_single up to its suspension point
EmbedAsyncSingle(t) ==
    /\ epc = "idle"
    /\ mode' = "single"
    /\ texts' = <<t>>
    /\ error' = "none"
    /\ batch_i' = 0
    /\ batched_embeddings' = <<>>
    /\ recomputed' = {}
    /\ failure_kind' = "none"
    /\ cache_before' = cache
    /\ cached_results' = <<CheckCache(cache, t)>>
    /\ IF CheckCache(cache, t) # None
       THEN /\ uncached_texts' = <<>>
            /\ requests' = <<>>
            /\ attempts' = 0
            /\ result' = <<CheckCache(cache, t)>>
            /\ epc' = "done"
       ELSE /\ uncached_texts' = <<t>>
            /\ requests' = << <<t>> >>
            /\ attempts' = 1
            /\ result' = <<>>
            /\ epc' = "request"
    /\ UNCHANGED <<cache, max_retries, batch_size, computed, api_key,
                   allow_empty_api_key, network_sent>>
    /\ UNCHANGED <<xvars, svars, ivars, avars, cvars, uvars, gvars>>

\* the request in flight
CurrentBatch == requests[Len(requests)]

\* _execute_async_request without an api key, allow_empty_api_key being set:
\* it sends nothing and returns a vector made from the hash of each text
MockMode == ~api_key /\ allow_empty_api_key
MockVector(t) == IF t = "t1" THEN "v1" ELSE "v2"

\* JinaEmbedder.__init__: key: an api key is passed or is in the settings
JinaEmbedderInit(key, allow_empty, size) ==
    /\ epc = "new"
    /\ api_key' = key
    /\ IF ~key /\ ~allow_empty
       THEN /\ epc' = "unconstructed"
            /\ error' = "EmbeddingError"
            /\ UNCHANGED <<allow_empty_api_key, batch_size>>
       ELSE /\ epc' = "idle"
            /\ error' = "none"
            /\ allow_empty_api_key' = allow_empty
            /\ batch_size' = size
    /\ UNCHANGED <<cache, max_retries, mode, texts, cached_results, uncached_texts,
                   batch_i, batched_embeddings, attempts, result, requests, computed,
                   recomputed, failure_kind, cache_before, network_sent>>
    /\ UNCHANGED <<xvars, svars, ivars, avars, cvars, uvars, gvars>>

\* the request in flight is answered with one vector per input; the call goes
\* on to its next request, or merges and returns
RequestSucceeds(vecs) ==
    /\ epc = "request"
    /\ MockMode => vecs = [i \in DOMAIN CurrentBatch |-> MockVector(CurrentBatch[i])]
    /\ network_sent' = (network_sent \/ ~MockMode)
    /\ LET batch == CurrentBatch
           be == batched_embeddings \o vecs
           next_i == IF mode = "many" THEN batch_i + batch_size ELSE Len(uncached_texts)
       IN
       /\ DOMAIN vecs = DOMAIN batch
       /\ computed' = computed \cup Range(batch)
       /\ recomputed' = recomputed \cup (Range(batch) \cap computed) \cup Duplicates(batch)
       /\ batched_embeddings' = be
       /\ failure_kind' = "none"
       /\ IF next_i < Len(uncached_texts)
          THEN /\ batch_i' = next_i
               /\ requests' = Append(requests, Batch(uncached_texts, next_i, batch_size))
               /\ attempts' = 1
               /\ epc' = "request"
               /\ cache' = CacheAfterBatch(cache, batch, vecs)
               /\ UNCHANGED result
          ELSE LET m == Merge(texts, cached_results, be, cache) IN
               /\ result' = m.result
               /\ cache' = m.cache
               /\ epc' = "done"
               /\ UNCHANGED <<batch_i, requests, attempts>>
    /\ UNCHANGED <<max_retries, batch_size, mode, texts, cached_results,
                   uncached_texts, error, cache_before, api_key, allow_empty_api_key>>
    /\ UNCHANGED <<xvars, svars, ivars, avars, cvars, uvars, gvars>>

\* the request in flight fails; kind is "transient" (timeout, rate limit, 5xx)
\* or "fatal" (malformed request, authentication rejection).  The decorator
\* sends it again, or the call fails with EmbeddingError
RequestFails(kind) ==
    /\ epc = "request"
    /\ ~MockMode
    /\ network_sent' = TRUE
    /\ failure_kind' = kind
    /\ IF RetryAgain(kind, attempts)
       THEN /\ attempts' = attempts + 1
            /\ epc' = "request"
            /\ error' = error
       ELSE /\ attempts' = attempts
            /\ epc' = "failed"
            /\ error' = "EmbeddingError"
    /\ UNCHANGED <<cache, max_retries, batch_size, mode, texts, cached_results,
                   uncached_texts, batch_i, batched_embeddings, result,
                   requests, computed, recomputed, cache_before, api_key,
                   allow_empty_api_key>>
    /\ UNCHANGED <<xvars, svars, ivars, avars, cvars, uvars, gvars>>

\* the caller takes the result or the exception; the call's locals are gone
EmbedReturnCall ==
    /\ epc \in {"done", "failed"}
    /\ epc' = "idle"
    /\ mode' = "many"
    /\ texts' = <<>>
    /\ cached_results' = <<>>
    /\ uncached_texts' = <<>>
    /\ batch_i' = 0
    /\ batched_embeddings' = <<>>
    /\ attempts' = 0
    /\ result' = <<>>
    /\ error' = "none"
    /\ requests' = <<>>
    /\ recomputed' = {}
    /\ failure_kind' = "none"
    /\ cache_before' = cache
    /\ UNCHANGED <<cache, max_retries, batch_size, computed, api_key,
                   allow_empty_api_key, network_sent>>

EmbedReturn == EmbedReturnCall /\ UNCHANGED <<xvars, svars, ivars, avars, cvars, uvars, gvars>>

\* ============================================================ vector store
NoPayload == [content |-> None, has_metadata |-> FALSE, metadata |-> EmptyDict,
              top |-> EmptyDict]
NoWrite == [written |-> FALSE, vector |-> None, payload |-> NoPayload]
\* probe: how the get_collections probe of a health_check went
\* filter, sent: the filter argument of a search, and whether the search
\* request was sent to the server
\* texts, arg_ids: the texts and the ids argument of an add that returned
NoReturn == [op |-> "none", raised |-> "none", ids |-> <<>>, hits |-> <<>>, ok |-> FALSE,
             probe |-> "none", filter |-> EmptyDict, sent |-> FALSE,
             texts |-> <<>>, arg_ids |-> <<>>]

\* the server before any store is constructed: the collection is absent, or
\* it exists already with some vector size and no points
IndexInit(exists) ==
    /\ collection_exists \in exists
    /\ collection_size \in (IF collection_exists THEN Dims ELSE {0})
    /\ points = {}
    /\ last_write = [id \in AllPointIds |-> NoWrite]
    /\ superseded = {}
    /\ upsert_sent = FALSE

StoreInit ==
    /\ store_state = "none"
    /\ vector_size = 0
    /\ has_embedding = FALSE
    /\ store_ret = NoReturn

NoCollection == [exists |-> FALSE, size |-> 0]

\* request ids as <<type, value>>: no id, the integer 0, the string "d1";
\* GeneratedId stands for str(uuid.uuid4())
NoId == <<"none", "">>
RequestIds == {NoId, <<"int", "0">>, <<"str", "d1">>}
GeneratedId == <<"str", "uuid">>
\* probe: for a health request, whether the server answers the store's probe
NoCall == [op |-> "none", id |-> NoId, content_length |-> 0, doc_id |-> "",
           probe |-> "none"]
NoResponse == [status |-> "none", id |-> NoId, chunks_created |-> 0,
               embeddings_generated |-> 0, services |-> {}]

\* two asyncio tasks that share one embedder
CallIds == {"a", "b"}

\* the locals of a task that is not inside embed_async_many
NoLocals == [pc |-> "idle", texts |-> <<>>, cached_results |-> <<>>,
             uncached_texts |-> <<>>, batch_i |-> 0, batched_embeddings |-> <<>>,
             attempts |-> 0, result |-> <<>>, error |-> "none", requests |-> <<>>]

\* no task has called the embedder
TasksInit ==
    /\ calls = [c \in CallIds |-> NoLocals]
    /\ calls_started = 0
    /\ served = {}

\* no chunk_text call is running
UiInit ==
    /\ ui_pc = "idle"
    /\ ui_text = <<>>
    /\ ui_max_size = 0
    /\ ui_chunks = <<>>

\* a RAGState that no generator call has touched; response_set: set_response
\* was called; metadata: the keys add_metadata was called with
NoState == [selected_documents |-> FALSE, response_set |-> FALSE, response |-> <<>>,
            metadata |-> {}]

\* no generator call is running
GeneratorInit ==
    /\ gpc = "idle"
    /\ gstate = NoState
    /\ stream = <<>>
    /\ buffer = <<>>
    /\ yielded = <<>>
    /\ received = <<>>
    /\ adapter_calls = 0
    /\ gfailure = "none"
    /\ graised = FALSE

\* the state of the module globals of api/app.py at import
AppInit ==
    /\ app_vector_store = FALSE
    /\ clear_ret = "none"
    /\ clear_before = NoCollection
    /\ app_ingestor = FALSE
    /\ api_call = NoCall
    /\ api_resp = NoResponse

BootstrapRecreates(exists, csize, size) == [exists |-> TRUE, size |-> size]
\* _bootstrap_collection: the collection as [exists, size] afterwards
BootstrapCollection(exists, csize, size) ==
    IF exists
    THEN [exists |-> TRUE, size |-> csize]
    ELSE [exists |-> TRUE, size |-> size]

\* QdrantStore.__post_init__; configured: the url and the api key resolve
QdrantStorePostInit(size, emb, configured) ==
    /\ vector_size' = size
    /\ has_embedding' = emb
    /\ IF ~configured
       THEN /\ store_state' = "failed"
            /\ UNCHANGED <<collection_exists, collection_size>>
       ELSE LET c == BootstrapCollection(collection_exists, collection_size, size) IN
            /\ collection_exists' = c.exists
            /\ collection_size' = c.size
            /\ store_state' = "ready"

\* a caller constructs a QdrantStore, which replaces the one it had
QdrantStoreInit(size, emb, configured) ==
    /\ store_ret.op = "none"
    /\ QdrantStorePostInit(size, emb, configured)
    /\ store_ret' = [NoReturn EXCEPT !.op = "init",
                        !.raised = IF configured THEN "none" ELSE "ValueError"]
    /\ UNCHANGED <<points, last_write, superseded, upsert_sent>>
    /\ UNCHANGED <<evars, ivars, avars, cvars, uvars, gvars>>

HealthCheckPropagates(probe_ok) ==
    [raised |-> IF probe_ok THEN "none" ELSE "UnexpectedResponse", ok |-> probe_ok]
\* the body of health_check: True after the probe returned, False from the
\* except Exception branch
HealthCheckOutcome(probe_ok) == [raised |-> "none", ok |-> probe_ok]

\* health_check: the get_collections probe succeeds or raises
HealthCheck(probe_ok) ==
    /\ store_state = "ready" /\ store_ret.op = "none"
    /\ LET out == HealthCheckOutcome(probe_ok) IN
       store_ret' = [NoReturn EXCEPT !.op = "health", !.ok = out.ok,
                        !.raised = out.raised,
                        !.probe = IF probe_ok THEN "ok" ELSE "failed"]
    /\ UNCHANGED <<xvars, store_state, vector_size, has_embedding>>
    /\ UNCHANGED <<evars, ivars, avars, cvars, uvars, gvars>>

\* the store's embedding object: embed_documents / embed_query of one text
EmbedDocument(t) == IF t = "t1" THEN "v1" ELSE "v2"

\* metadatas = metadatas or [{}] * len(texts_list)
DefaultMetadatas(metadatas, n) ==
    IF metadatas = <<>> THEN [i \in 1..n |-> EmptyDict] ELSE metadatas

PointIdByPosition(ids, i) == ToString(i)
\* point_id = str(ids[i]) if ids and i < len(ids) else str(i)   (i from 0)
PointId(ids, i) == IF ids # <<>> /\ i < Len(ids) THEN ids[i + 1] ELSE ToString(i)

\* the points add_embeddings builds, in order
AddEmbeddingsPoints(ts, embeddings, metadatas, ids) ==
    [i \in 1..Len(ts) |->
        [id |-> PointId(ids, i - 1),
         vector |-> embeddings[i],
         payload |-> [content |-> ts[i], has_metadata |-> TRUE,
                      metadata |-> metadatas[i], top |-> EmptyDict]]]

UpsertOneKeepsOld(S, p) == S \cup {p}
\* the server's upsert of one point: insert, or overwrite the point of that id
UpsertOne(S, p) == {q \in S : q.id # p.id} \cup {p}

\* self._client.upsert(points=batch): the points are applied in order
RECURSIVE Upsert(_, _)
Upsert(S, batch) ==
    IF batch = <<>> THEN S ELSE Upsert(UpsertOne(S, Head(batch)), Tail(batch))

\* the server accepts an upsert or a search on an existing collection, and an
\* upsert only of vectors of the collection's size
ServerAccepts(size) == collection_exists /\ collection_size = size

\* what the log of writes records of one upsert request: per id, the last
\* point of the batch with that id
LastWriteAfter(lw, batch) ==
    [id \in DOMAIN lw |->
        IF \E i \in 1..Len(batch) : batch[i].id = id
        THEN LET last == CHOOSE i \in 1..Len(batch) :
                            /\ batch[i].id = id
                            /\ \A j \in 1..Len(batch) : batch[j].id = id => j <= i
             IN [written |-> TRUE, vector |-> batch[last].vector,
                 payload |-> batch[last].payload]
        ELSE lw[id]]

\* the ids for which the upsert of batch replaces a point (of the index, or an
\* earlier one of the batch) by a different one
Supersedes(S, batch) ==
    {batch[i].id : i \in {k \in 1..Len(batch) :
        \/ \E q \in S : q.id = batch[k].id /\ q # batch[k]
        \/ \E j \in 1..(k - 1) : batch[j].id = batch[k].id /\ batch[j] # batch[k]}}

\* add_texts, with the add_embeddings call it ends in
AddTexts(ts, metadatas, ids) ==
    /\ store_state = "ready" /\ store_ret.op = "none"
    /\ IF ~has_embedding
       THEN /\ store_ret' = [NoReturn EXCEPT !.op = "add", !.raised = "ValueError"]
            /\ UNCHANGED xvars
       ELSE LET embeddings == [i \in 1..Len(ts) |-> EmbedDocument(ts[i])]
                metas == DefaultMetadatas(metadatas, Len(ts))
            IN
            IF Len(ts) # Len(embeddings) \/ Len(metas) # Len(ts)
            THEN /\ store_ret' = [NoReturn EXCEPT !.op = "add", !.raised = "ValueError"]
                 /\ UNCHANGED xvars
            ELSE LET batch == AddEmbeddingsPoints(ts, embeddings, metas, ids) IN
                 /\ upsert_sent' = TRUE
                 /\ IF ServerAccepts(vector_size)
                    THEN /\ points' = Upsert(points, batch)
                         /\ last_write' = LastWriteAfter(last_write, batch)
                         /\ superseded' = superseded \cup Supersedes(points, batch)
                         /\ store_ret' = [NoReturn EXCEPT !.op = "add",
                                             !.ids = [i \in 1..Len(batch) |-> batch[i].id],
                                             !.texts = ts, !.arg_ids = ids]
                    ELSE /\ store_ret' = [NoReturn EXCEPT !.op = "add",
                                             !.raised = "UnexpectedResponse"]
                         /\ UNCHANGED <<points, last_write, superseded>>
                 /\ UNCHANGED <<collection_exists, collection_size>>
    /\ UNCHANGED <<store_state, vector_size, has_embedding>>
    /\ UNCHANGED <<evars, ivars, avars, cvars, uvars, gvars>>

MatchValueAcceptsAny(value) == TRUE
\* rest.MatchValue(value=value): the model takes a bool, an int or a str and
\* fails validation for any other value
MatchValueAccepts(value) == value \in ScalarValues

\* _convert_filter raises: some condition's MatchValue cannot be built
ConvertFilterRaises(filter_dict) == \E kv \in filter_dict : ~MatchValueAccepts(kv[2])

\* _convert_filter: one condition per key, on the path metadata.<key>
ConvertFilter(filter_dict) ==
    {[path |-> <<"metadata", kv[1]>>, value |-> kv[2]] : kv \in filter_dict}

\* the server's match of one condition against a payload
Matches(payload, cond) ==
    /\ cond.path[1] = "metadata"
    /\ payload.has_metadata
    /\ <<cond.path[2], cond.value>> \in payload.metadata

\* the similarity of a stored vector to the query vector
Score(v, q) == IF v = q THEN 2 ELSE 1

\* the server's answers to a search: the k best candidates, best first
Rankings(cands, q, k) ==
    LET m == Min(k, Cardinality(cands)) IN
    {r \in [1..m -> cands] :
        /\ \A i, j \in 1..m : i < j =>
              r[i] # r[j] /\ Score(r[i].vector, q) >= Score(r[j].vector, q)
        /\ \A c \in cands \ Range(r) : \A i \in 1..m :
              Score(r[i].vector, q) >= Score(c.vector, q)}

\* payload.get(self.content_payload_key, "")
PayloadContent(payload) == IF payload.content = None THEN "" ELSE payload.content
\* payload.get(self.metadata_payload_key, {})
PayloadMetadata(payload) == IF payload.has_metadata THEN payload.metadata ELSE EmptyDict

\* similarity_search_with_score
SimilaritySearchWithScore(query, k, filter) ==
    /\ store_state = "ready" /\ store_ret.op = "none"
    /\ IF ~has_embedding
       THEN store_ret' = [NoReturn EXCEPT !.op = "search", !.raised = "ValueError",
                             !.filter = filter]
       ELSE IF filter # EmptyDict /\ ConvertFilterRaises(filter)
       THEN store_ret' = [NoReturn EXCEPT !.op = "search", !.raised = "ValidationError",
                             !.filter = filter]
       ELSE IF ~collection_exists
       THEN store_ret' = [NoReturn EXCEPT !.op = "search", !.raised = "UnexpectedResponse",
                             !.filter = filter, !.sent = TRUE]
       ELSE LET conds == IF filter # EmptyDict THEN ConvertFilter(filter) ELSE {}
                cands == {p \in points : \A c \in conds : Matches(p.payload, c)}
            IN \E r \in Rankings(cands, EmbedDocument(query), k) :
                 store_ret' = [NoReturn EXCEPT !.op = "search",
                     !.filter = filter, !.sent = TRUE,
                     !.hits = [i \in 1..Len(r) |->
                                  [id |-> r[i].id,
                                   page_content |-> PayloadContent(r[i].payload),
                                   metadata |-> PayloadMetadata(r[i].payload),
                                   score |-> Score(r[i].vector, EmbedDocument(query))]]]
    /\ UNCHANGED <<xvars, store_state, vector_size, has_embedding>>
    /\ UNCHANGED <<evars, ivars, avars, cvars, uvars, gvars>>

\* delete
Delete(ids) ==
    /\ store_state = "ready" /\ store_ret.op = "none"
    /\ IF collection_exists
       THEN /\ points' = {p \in points : p.id \notin Range(ids)}
            /\ last_write' = [id \in DOMAIN last_write |->
                                 IF id \in Range(ids) THEN NoWrite ELSE last_write[id]]
            /\ superseded' = superseded \ Range(ids)
            /\ store_ret' = [NoReturn EXCEPT !.op = "delete", !.ok = TRUE]
       ELSE /\ store_ret' = [NoReturn EXCEPT !.op = "delete", !.raised = "UnexpectedResponse"]
            /\ UNCHANGED <<points, last_write, superseded>>
    /\ UNCHANGED <<collection_exists, collection_size, upsert_sent,
                   store_state, vector_size, has_embedding>>
    /\ UNCHANGED <<evars, ivars, avars, cvars, uvars, gvars>>

\* the caller takes what the operation returned or raised
StoreReturn ==
    /\ store_ret.op # "none"
    /\ store_ret' = NoReturn
    /\ UNCHANGED <<xvars, store_state, vector_size, has_embedding>>
    /\ UNCHANGED <<evars, ivars, avars, cvars, uvars, gvars>>

\* ================================================================ ingestor
\* a data directory: whether it exists, and its files; supported: the file's
\* extension is in supported_extensions; ok: its content can be read
ReadableFile == [ok |-> TRUE, supported |-> TRUE, size |-> 2]
UnreadableFile == [ok |-> FALSE, supported |-> TRUE, size |-> 2]
UnsupportedFile == [ok |-> TRUE, supported |-> FALSE, size |-> 2]
Directories ==
    {[exists |-> FALSE, files |-> <<>>],
     [exists |-> TRUE, files |-> <<>>],
     [exists |-> TRUE, files |-> <<UnreadableFile>>],
     [exists |-> TRUE, files |-> <<ReadableFile>>],
     [exists |-> TRUE, files |-> <<UnreadableFile, ReadableFile>>],
     [exists |-> TRUE, files |-> <<ReadableFile, ReadableFile>>],
     [exists |-> TRUE, files |-> <<ReadableFile, UnsupportedFile>>]}

\* the chunk documents TextChunker.split returns: ordered, with ids unique
\* within the batch.  The inputs enumerated: the text "t1" under either id, the
\* text "t2" under the id "c2"
Splits ==
    {cs \in SeqsUpTo([id : ChunkIds, text : ChunkTexts, metadata : {ChunkMetadata}],
                     Cardinality(ChunkIds)) :
        /\ \A i, j \in 1..Len(cs) : i # j => cs[i].id # cs[j].id
        /\ \A i \in 1..Len(cs) : cs[i].text = "t2" => cs[i].id = "c2"}

\* the reference corpus: a directory of one readable file that the chunker
\* makes one chunk of
ReferenceDir == [exists |-> TRUE, files |-> <<ReadableFile>>]
ReferenceTexts == <<"t1">>

\* data_dir while no call runs
NoDirectory == [exists |-> FALSE, files |-> <<>>]

\* the values of chunking_strategy: one the chunker supports, one it does not
ChunkingStrategies == {"recursive", "bogus"}
StrategySupported(strategy) == strategy = "recursive"

\* the state after DocumentIngestor.__init__, which stores any strategy value
IngestInitWith(strategies) ==
    /\ chunking_strategy \in strategies
    /\ ing_chunker = FALSE
    /\ ing_embedder = FALSE
    /\ stats = [documents_processed |-> 0, chunks_created |-> 0,
                embeddings_generated |-> 0, bytes_processed |-> 0]
    /\ ipc = "idle"
    /\ chunks = <<>>
    /\ ierror = "none"
    /\ ingest_calls = 0
    /\ points_before = {}
    /\ call_upserts = 0
    /\ embed_failed = FALSE
    /\ data_dir = NoDirectory
    /\ stage_log = <<>>
    /\ stats_before = stats
    /\ last_outcome = "none"
    /\ cleared = FALSE
    /\ call_is_reference = FALSE
    /\ first_count = -1

\* an ingestor of the default strategy
IngestInit == IngestInitWith({"recursive"})

RECURSIVE SumSizes(_)
SumSizes(fs) == IF fs = <<>> THEN 0 ELSE Head(fs).size + SumSizes(Tail(fs))

LoadedUntilError(files) ==
    IF \E i \in 1..Len(files) : ~files[i].ok
    THEN SubSeq(files, 1, (CHOOSE i \in 1..Len(files) :
                              ~files[i].ok /\ \A j \in 1..(i - 1) : files[j].ok) - 1)
    ELSE files
\* the files the loop of _load_documents_from_directory makes documents of: a
\* file of another extension is passed over, one whose read raises is logged
\* and skipped
LoadedFiles(files) == SelectSeq(files, LAMBDA f : f.supported /\ f.ok)

\* _load_documents_from_directory: what it raises, the stats afterwards and
\* the number of documents it returns
LoadDocumentsFromDirectory(st, dir) ==
    IF ~dir.exists \/ dir.files = <<>>
    THEN [raised |-> "ValueError", stats |-> st, documents |-> 0]
    ELSE LET loaded == LoadedFiles(dir.files)
             st1 == [st EXCEPT !.bytes_processed = @ + SumSizes(loaded)]
         IN IF loaded = <<>>
            THEN [raised |-> "ValueError", stats |-> st1, documents |-> 0]
            ELSE [raised |-> "none",
                  stats |-> [st1 EXCEPT !.documents_processed = Len(loaded)],
                  documents |-> Len(loaded)]

\* ingest_documents: the count is restored when documents were loaded and the
\* counter is still zero
RestoreDocumentsCount(st, current_docs_count, documents) ==
    IF documents > 0 /\ st.documents_processed = 0
    THEN [st EXCEPT !.documents_processed = current_docs_count]
    ELSE st

NeedsInitializeChunkerOnly == ~ing_chunker
\* not all([self.chunker, self.embedder, self.vector_store])
NeedsInitialize == ~(ing_chunker /\ ing_embedder /\ store_state = "ready")

InitializeWithoutChunker(embedder_ok, configured) ==
    IF ~embedder_ok THEN "EmbeddingError"
    ELSE IF ~configured THEN "ValueError"
    ELSE "none"
\* what initialize() raises: the chunker is constructed first (an unsupported
\* strategy is a configuration error), then the embedder, then the store
InitializeRaises(embedder_ok, configured) ==
    IF ~StrategySupported(chunking_strategy) THEN "ConfigurationError"
    ELSE IF ~embedder_ok THEN "EmbeddingError"
    ELSE IF ~configured THEN "ValueError"
    ELSE "none"

\* initialize(): the components it leaves set
Initialize(embedder_ok, configured) ==
    LET chunker == InitializeRaises(embedder_ok, configured) # "ConfigurationError" IN
    /\ ing_chunker' = (ing_chunker \/ chunker)
    /\ ing_embedder' = (ing_embedder \/ (chunker /\ embedder_ok))
    /\ IF chunker /\ embedder_ok
       THEN QdrantStorePostInit(EmbedderDimension, FALSE, configured)
       ELSE UNCHANGED <<store_state, vector_size, has_embedding,
                        collection_exists, collection_size>>

\* ingest_documents up to its first suspension point: initialize() if a
\* component is missing, load, chunk, and the start of embed_async_many.
\* embedder_ok: get_embedder returns an embedder; configured: the store's url
\* and api key resolve; split: what the chunker returns for the documents;
\* chunk_ok: the chunker returns (it raises ChunkingError otherwise)
IngestDocuments(dir, split, chunk_ok, embedder_ok, configured) ==
    /\ ipc = "idle" /\ epc = "idle"
    /\ ingest_calls < MaxCalls
    /\ ingest_calls' = ingest_calls + 1
    /\ points_before' = points
    /\ stats_before' = stats
    /\ data_dir' = dir
    /\ call_upserts' = 0
    /\ embed_failed' = FALSE
    /\ cleared' = FALSE
    /\ call_is_reference' =
          (cleared /\ dir = ReferenceDir
                   /\ [i \in 1..Len(split) |-> split[i].text] = ReferenceTexts)
    /\ IF NeedsInitialize
       THEN Initialize(embedder_ok, configured)
       ELSE UNCHANGED <<ing_chunker, ing_embedder, store_state, vector_size,
                        has_embedding, collection_exists, collection_size>>
    /\ IF NeedsInitialize /\ InitializeRaises(embedder_ok, configured) # "none"
       THEN /\ ipc' = "raised"
            /\ ierror' = InitializeRaises(embedder_ok, configured)
            /\ stage_log' = <<[stage |-> "initialize", ok |-> FALSE]>>
            /\ UNCHANGED <<stats, chunks, evars>>
       ELSE LET l == LoadDocumentsFromDirectory(stats, dir) IN
            IF l.raised # "none"
            THEN /\ ipc' = "raised"
                 /\ ierror' = l.raised
                 /\ stats' = l.stats
                 /\ stage_log' = <<[stage |-> "load", ok |-> FALSE]>>
                 /\ UNCHANGED <<chunks, evars>>
            ELSE IF ~chunk_ok
            THEN /\ ipc' = "raised"
                 /\ ierror' = "ChunkingError"
                 /\ stats' = RestoreDocumentsCount(l.stats, stats.documents_processed,
                                                   l.documents)
                 /\ stage_log' = <<[stage |-> "load", ok |-> TRUE],
                                   [stage |-> "chunk", ok |-> FALSE]>>
                 /\ UNCHANGED <<chunks, evars>>
            ELSE /\ stats' = [RestoreDocumentsCount(l.stats, stats.documents_processed,
                                                    l.documents)
                                 EXCEPT !.chunks_created = @ + Len(split)]
                 /\ chunks' = split
                 /\ ipc' = "embed"
                 /\ ierror' = "none"
                 /\ stage_log' = <<[stage |-> "load", ok |-> TRUE],
                                   [stage |-> "chunk", ok |-> TRUE]>>
                 /\ EmbedAsyncManyCall([i \in 1..Len(split) |-> split[i].text])
    /\ UNCHANGED <<points, last_write, superseded, upsert_sent, store_ret, last_outcome,
                   first_count, chunking_strategy, avars, cvars, uvars, gvars>>

GenerateEmbeddingsSwallows(failed) == FALSE
\* _generate_embeddings: except Exception: raise
GenerateEmbeddingsRaises(failed) == failed

\* doc_embeddings = {chunks[i].id: embedding for i, embedding in enumerate(embeddings)}
DocEmbeddings(cs, embeddings) ==
    [id \in {cs[i].id : i \in 1..Len(embeddings)} |->
        embeddings[CHOOSE i \in 1..Len(embeddings) :
                      /\ cs[i].id = id
                      /\ \A j \in 1..Len(embeddings) : cs[j].id = id => j <= i]]

\* the points _store_chunks_with_embeddings builds:
\* payload = {"text": chunk.text, **chunk.metadata}
StorePoints(cs, doc_embeddings) ==
    LET kept == SelectSeq(cs, LAMBDA c : c.id \in DOMAIN doc_embeddings) IN
    [i \in 1..Len(kept) |->
        [id |-> kept[i].id,
         vector |-> doc_embeddings[kept[i].id],
         payload |-> [content |-> None, has_metadata |-> FALSE, metadata |-> EmptyDict,
                      top |-> {<<"text", kept[i].text>>} \cup kept[i].metadata]]]

\* ingest_documents from the return of embed_async_many on: the rest of
\* _generate_embeddings, then _store_chunks_with_embeddings.  server_ok: the
\* server is reachable for the upsert
\* (chunks[i] of a vector beyond the last chunk is an IndexError, which
\* _generate_embeddings raises again)
IngestStore(server_ok) ==
    /\ ipc = "embed" /\ epc \in {"done", "failed"}
    /\ embed_failed' = (epc = "failed")
    /\ EmbedReturnCall
    /\ IF GenerateEmbeddingsRaises(epc = "failed" \/ Len(result) > Len(chunks))
       THEN /\ ipc' = "raised"
            /\ ierror' = (IF epc = "failed" THEN error ELSE "IndexError")
            /\ stage_log' = Append(stage_log, [stage |-> "embed", ok |-> FALSE])
            /\ UNCHANGED <<stats, call_upserts, xvars, first_count>>
       ELSE LET batch == StorePoints(chunks, DocEmbeddings(chunks, result)) IN
            /\ stats' = [stats EXCEPT !.embeddings_generated = @ + Len(result)]
            /\ IF store_state # "ready"
               THEN /\ ipc' = "raised"
                    /\ ierror' = "ValueError"
                    /\ stage_log' = stage_log \o <<[stage |-> "embed", ok |-> epc = "done"],
                                                    [stage |-> "store", ok |-> FALSE]>>
                    /\ UNCHANGED <<call_upserts, upsert_sent, points, last_write,
                                   superseded, first_count>>
               ELSE /\ call_upserts' = call_upserts + 1
                    /\ upsert_sent' = TRUE
                    /\ IF server_ok /\ ServerAccepts(EmbedderDimension)
                       THEN /\ points' = Upsert(points, batch)
                            /\ last_write' = LastWriteAfter(last_write, batch)
                            /\ superseded' = superseded \cup Supersedes(points, batch)
                            /\ ipc' = "returned"
                            /\ ierror' = "none"
                            /\ first_count' = (IF call_is_reference /\ first_count = -1
                                               THEN Cardinality(Upsert(points, batch))
                                               ELSE first_count)
                            /\ stage_log' = stage_log \o <<[stage |-> "embed", ok |-> epc = "done"],
                                                            [stage |-> "store", ok |-> TRUE]>>
                       ELSE /\ ipc' = "raised"
                            /\ ierror' = "UnexpectedResponse"
                            /\ stage_log' = stage_log \o <<[stage |-> "embed", ok |-> epc = "done"],
                                                            [stage |-> "store", ok |-> FALSE]>>
                            /\ UNCHANGED <<points, last_write, superseded, first_count>>
            /\ UNCHANGED <<collection_exists, collection_size>>
    /\ UNCHANGED <<chunking_strategy, ing_chunker, ing_embedder, chunks, ingest_calls,
                   points_before, svars,
                   data_dir, stats_before, last_outcome, cleared, call_is_reference,
                   avars, cvars, uvars, gvars>>

\* the caller takes the stats or the exception; the call's locals are gone
IngestReturn ==
    /\ ipc \in {"returned", "raised"}
    /\ ipc' = "idle"
    /\ chunks' = <<>>
    /\ ierror' = "none"
    /\ points_before' = points
    /\ stats_before' = stats
    /\ data_dir' = NoDirectory
    /\ stage_log' = <<>>
    /\ last_outcome' = (IF ipc = "returned" THEN "ok"
                        ELSE stage_log[Len(stage_log)].stage)
    /\ call_upserts' = 0
    /\ embed_failed' = FALSE
    /\ call_is_reference' = FALSE
    /\ UNCHANGED <<chunking_strategy, ing_chunker, ing_embedder, stats, ingest_calls,
                   cleared, first_count,
                   evars, xvars, svars, avars, cvars, uvars, gvars>>

NextIngest ==
    \/ \E dir \in Directories, split \in Splits :
           \E chunk_ok \in BOOLEAN, embedder_ok \in BOOLEAN, configured \in BOOLEAN :
               IngestDocuments(dir, split, chunk_ok, embedder_ok, configured)
    \/ \E vecs \in SeqsUpTo(Vectors, MaxBatchSize) : RequestSucceeds(vecs)
    \/ \E kind \in {"transient", "fatal"} : RequestFails(kind)
    \/ \E server_ok \in BOOLEAN : IngestStore(server_ok)
    \/ IngestReturn

InitIngest ==
    GetEmbedderInit /\ IndexInit(BOOLEAN) /\ StoreInit /\ IngestInitWith(ChunkingStrategies)
        /\ AppInit /\ TasksInit /\ UiInit /\ GeneratorInit

SpecIngest == InitIngest /\ [][NextIngest]_vars

\* ========================================================= API application
\* get_vector_store() of api/app.py: whether it raises.  While the global is
\* None it calls get_vector_store(name=..., ...), a name that the definition
\* of this coroutine function has rebound to the coroutine function itself,
\* which takes no arguments: TypeError
GetVectorStoreRaises(have_store) == ~have_store

\* clear_collection.  create_ok: the client's create_collection accepts the
\* keyword vector_size
ClearCollection(create_ok) ==
    /\ clear_ret = "none"
    /\ clear_before' = [exists |-> collection_exists, size |-> collection_size]
    /\ cleared' = (cleared \/ ipc = "idle")
    /\ IF GetVectorStoreRaises(app_vector_store)
       THEN /\ clear_ret' = "HTTPException"
            /\ UNCHANGED xvars
       ELSE /\ points' = {}
            /\ last_write' = [id \in AllPointIds |-> NoWrite]
            /\ superseded' = {}
            /\ collection_exists' = create_ok
            /\ collection_size' = (IF create_ok THEN EmbedderDimension ELSE 0)
            /\ clear_ret' = (IF collection_exists /\ create_ok
                             THEN "success" ELSE "HTTPException")
            /\ UNCHANGED upsert_sent
    /\ UNCHANGED <<cvars, uvars, gvars, app_vector_store, app_ingestor, api_call, api_resp, evars, svars,
                   chunking_strategy, ing_chunker,
                   ing_embedder, stats, ipc,
                   chunks, ierror, ingest_calls, points_before, call_upserts,
                   embed_failed, data_dir, stage_log, stats_before, last_outcome,
                   call_is_reference, first_count>>

\* the client takes the answer
ClearReturn ==
    /\ clear_ret # "none"
    /\ clear_ret' = "none"
    /\ clear_before' = NoCollection
    /\ UNCHANGED <<cvars, uvars, gvars, app_vector_store, app_ingestor, api_call, api_resp,
                   evars, xvars, svars, ivars>>

NextClear ==
    \/ \E dir \in Directories, split \in Splits :
           \E chunk_ok \in BOOLEAN, embedder_ok \in BOOLEAN, configured \in BOOLEAN :
               IngestDocuments(dir, split, chunk_ok, embedder_ok, configured)
    \/ \E vecs \in SeqsUpTo(Vectors, MaxBatchSize) : RequestSucceeds(vecs)
    \/ \E kind \in {"transient", "fatal"} : RequestFails(kind)
    \/ \E server_ok \in BOOLEAN : IngestStore(server_ok)
    \/ IngestReturn
    \/ \E create_ok \in BOOLEAN : ClearCollection(create_ok)
    \/ ClearReturn

InitClear == GetEmbedderInit /\ IndexInit(BOOLEAN) /\ StoreInit /\ IngestInit /\ AppInit /\ TasksInit /\ UiInit /\ GeneratorInit

SpecClear == InitClear /\ [][NextClear]_vars

\* ------------------------------------------------ embed_document and health
\* EmbedRequest.content: Field(..., min_length=1, max_length=50000)
MinContentLength == 1
MaxContentLength == 50000
\* the lengths of content a client sends
ContentLengths == {0, MinContentLength, MaxContentLength, MaxContentLength + 1}

ContentValidNoMax(n) == n >= MinContentLength
\* the validation of the request body against EmbedRequest, which the
\* framework runs before it calls the handler
ContentValid(n) == n >= MinContentLength /\ n <= MaxContentLength

\* the truth value of request.id: None, 0 and "" are false
Truthy(id) == id \notin {NoId, <<"int", "0">>, <<"str", "">>}
\* doc_id = request.id or str(uuid.uuid4())
DocId(id) == IF Truthy(id) THEN id ELSE GeneratedId
\* str(doc_id)
Str(id) == id[2]

\* embed_document up to its first suspension point inside embed_async_many:
\* validation of the body, get_ingestor() (which initializes a new ingestor),
\* the document, the chunker's split and the start of _generate_embeddings
ApiEmbedDocument(id, content_length, split, chunk_ok, embedder_ok, configured) ==
    /\ api_call.op = "none" /\ ipc = "idle" /\ epc = "idle"
    /\ ingest_calls < MaxCalls
    /\ UNCHANGED <<cvars, uvars, gvars, app_vector_store, clear_ret, clear_before, chunking_strategy,
                   points, last_write, superseded, upsert_sent, store_ret,
                   last_outcome, first_count, cleared, call_is_reference, data_dir,
                   call_upserts, embed_failed, ierror>>
    /\ IF ~ContentValid(content_length)
       THEN /\ api_call' = [NoCall EXCEPT !.op = "embed", !.id = id,
                                          !.content_length = content_length]
            /\ api_resp' = [NoResponse EXCEPT !.status = "ValidationError"]
            /\ UNCHANGED <<app_ingestor, ing_chunker, ing_embedder, store_state,
                           vector_size, has_embedding, collection_exists,
                           collection_size, stats, ipc, chunks, ingest_calls,
                           points_before, stage_log, stats_before, evars>>
       ELSE LET init_now == ~app_ingestor
                raised == IF init_now THEN InitializeRaises(embedder_ok, configured)
                          ELSE "none"
                failed == \/ raised # "none"
                          \/ ~init_now /\ ~ing_chunker
                          \/ ~chunk_ok
                          \/ ~init_now /\ ~ing_embedder
            IN
            /\ app_ingestor' = TRUE
            /\ IF init_now
               THEN Initialize(embedder_ok, configured)
               ELSE UNCHANGED <<ing_chunker, ing_embedder, store_state, vector_size,
                                has_embedding, collection_exists, collection_size>>
            /\ api_call' = [NoCall EXCEPT
                                !.op = "embed", !.id = id,
                                !.content_length = content_length,
                                !.doc_id = IF raised = "none" THEN Str(DocId(id)) ELSE ""]
            /\ IF failed
               THEN /\ api_resp' = [NoResponse EXCEPT !.status = "HTTPException"]
                    /\ UNCHANGED <<stats, ipc, chunks, ingest_calls, points_before,
                                   stage_log, stats_before, evars>>
               ELSE /\ api_resp' = NoResponse
                    /\ ingest_calls' = ingest_calls + 1
                    /\ points_before' = points
                    /\ stats_before' = stats
                    /\ chunks' = split
                    /\ ipc' = "embed"
                    /\ stage_log' = <<[stage |-> "chunk", ok |-> TRUE]>>
                    /\ EmbedAsyncManyCall([i \in 1..Len(split) |-> split[i].text])
                    /\ UNCHANGED stats

\* the rest of embed_document once _store_chunks_with_embeddings has returned
\* or a stage has raised: the response, or HTTPException(500)
ApiEmbedDocumentRespond ==
    /\ api_call.op = "embed" /\ api_resp.status = "none"
    /\ ipc \in {"returned", "raised"}
    /\ api_resp' = IF ipc = "returned"
                   THEN [NoResponse EXCEPT
                            !.status = "success",
                            !.id = DocId(api_call.id),
                            !.chunks_created = Len(chunks),
                            !.embeddings_generated =
                                stats.embeddings_generated - stats_before.embeddings_generated]
                   ELSE [NoResponse EXCEPT !.status = "HTTPException"]
    /\ ipc' = "idle"
    /\ chunks' = <<>>
    /\ ierror' = "none"
    /\ points_before' = points
    /\ stats_before' = stats
    /\ stage_log' = <<>>
    /\ last_outcome' = (IF ipc = "returned" THEN "ok"
                        ELSE stage_log[Len(stage_log)].stage)
    /\ call_upserts' = 0
    /\ embed_failed' = FALSE
    /\ UNCHANGED <<chunking_strategy, ing_chunker, ing_embedder, stats, ingest_calls,
                   cleared, first_count, data_dir, call_is_reference,
                   cvars, uvars, gvars, app_vector_store, clear_ret, clear_before, app_ingestor, api_call,
                   evars, xvars, svars>>

EmbedderStatusUnavailable(raised) == IF raised THEN "unhealthy" ELSE "unavailable"
\* the embedder entry of health_check: get_embedder returns an embedder, which
\* is true, or raises
EmbedderStatus(raised) == IF raised THEN "unhealthy" ELSE "healthy"

\* the vector_store entry of health_check
VectorStoreStatus(have_store, probe_ok) ==
    IF GetVectorStoreRaises(have_store) THEN "unhealthy"
    ELSE IF HealthCheckOutcome(probe_ok).ok THEN "healthy" ELSE "unhealthy"

\* health_check of api/app.py.  probe_ok: the store's probe succeeds;
\* embedder_ok: get_embedder returns
ApiHealthCheck(probe_ok, embedder_ok) ==
    /\ api_call.op = "none"
    /\ api_call' = [NoCall EXCEPT !.op = "health",
                                  !.probe = IF probe_ok THEN "ok" ELSE "failed"]
    /\ LET services == {<<"vector_store", VectorStoreStatus(app_vector_store, probe_ok)>>,
                        <<"embedder", EmbedderStatus(~embedder_ok)>>}
       IN api_resp' = [NoResponse EXCEPT
                          !.status = IF \A e \in services : e[2] = "healthy"
                                     THEN "healthy" ELSE "degraded",
                          !.services = services]
    /\ UNCHANGED <<cvars, uvars, gvars, app_vector_store, clear_ret, clear_before, app_ingestor,
                   evars, xvars, svars, ivars>>

\* the client takes the response
ApiReturn ==
    /\ api_resp.status # "none"
    /\ api_call' = NoCall
    /\ api_resp' = NoResponse
    /\ UNCHANGED <<cvars, uvars, gvars, app_vector_store, clear_ret, clear_before, app_ingestor,
                   evars, xvars, svars, ivars>>

NextApi ==
    \/ \E id \in RequestIds, content_length \in ContentLengths, split \in Splits :
           \E chunk_ok \in BOOLEAN, embedder_ok \in BOOLEAN, configured \in BOOLEAN :
               ApiEmbedDocument(id, content_length, split, chunk_ok, embedder_ok, configured)
    \/ \E vecs \in SeqsUpTo(Vectors, MaxBatchSize) : RequestSucceeds(vecs)
    \/ \E kind \in {"transient", "fatal"} : RequestFails(kind)
    \/ \E server_ok \in BOOLEAN : IngestStore(server_ok)
    \/ ApiEmbedDocumentRespond
    \/ \E probe_ok \in BOOLEAN, embedder_ok \in BOOLEAN : ApiHealthCheck(probe_ok, embedder_ok)
    \/ ApiReturn

InitApi ==
    GetEmbedderInit /\ IndexInit(BOOLEAN) /\ StoreInit /\ IngestInitWith(ChunkingStrategies)
        /\ AppInit /\ TasksInit /\ UiInit /\ GeneratorInit

SpecApi == InitApi /\ [][NextApi]_vars

\* the arguments of add_texts: lists of n texts, no metadatas or n equal ones
\* or a list of the wrong length, and up to n ids
MetadataArgs(n) ==
    {<<>>} \cup {[i \in 1..n |-> m] : m \in Metadatas} \cup {[i \in 1..(n + 1) |-> EmptyDict]}

NextStore ==
    \/ \E size \in Dims, emb \in BOOLEAN, configured \in BOOLEAN :
           QdrantStoreInit(size, emb, configured)
    \/ \E probe_ok \in BOOLEAN : HealthCheck(probe_ok)
    \/ \E n \in 0..MaxPoints : \E ts \in [1..n -> Texts] :
           \E metadatas \in MetadataArgs(n), ids \in SeqsUpTo(CallerIds, n) :
               AddTexts(ts, metadatas, ids)
    \/ \E query \in Texts, k \in 1..MaxK, filter \in Filters :
           SimilaritySearchWithScore(query, k, filter)
    \/ \E id \in StoreIds : Delete(<<id>>)
    \/ StoreReturn

InitStore == EmbedInit /\ IndexInit(BOOLEAN) /\ StoreInit /\ IngestInit /\ AppInit /\ TasksInit /\ UiInit /\ GeneratorInit

SpecStore == InitStore /\ [][NextStore]_vars

\* ingestion followed by retrieval: the ingestor stores chunks, and a caller
\* searches the same collection through a QdrantStore it constructs with an
\* embedding (the ingestor's own store has none).  store_state, vector_size
\* and has_embedding are those of the store constructed last
NextRoundTrip ==
    \/ \E dir \in {ReferenceDir}, split \in Splits :
           IngestDocuments(dir, split, TRUE, TRUE, TRUE)
    \/ \E vecs \in SeqsUpTo(Vectors, MaxBatchSize) : RequestSucceeds(vecs)
    \/ \E kind \in {"transient", "fatal"} : RequestFails(kind)
    \/ \E server_ok \in BOOLEAN : IngestStore(server_ok)
    \/ IngestReturn
    \/ QdrantStoreInit(EmbedderDimension, TRUE, TRUE)
    \/ \E query \in Texts, k \in 1..MaxK, filter \in Metadatas :
           SimilaritySearchWithScore(query, k, filter)
    \/ StoreReturn

InitRoundTrip == GetEmbedderInit /\ IndexInit(BOOLEAN) /\ StoreInit /\ IngestInit /\ AppInit /\ TasksInit /\ UiInit /\ GeneratorInit

SpecRoundTrip == InitRoundTrip /\ [][NextRoundTrip]_vars

NextEmbed ==
    \/ \E ts \in SeqsUpTo(Texts, MaxTexts) : EmbedAsyncMany(ts)
    \/ \E t \in Texts : EmbedAsyncSingle(t)
    \/ \E vecs \in SeqsUpTo(Vectors, MaxBatchSize) : RequestSucceeds(vecs)
    \/ \E kind \in {"transient", "fatal"} : RequestFails(kind)
    \/ EmbedReturn

InitEmbed == EmbedInit /\ IndexInit({FALSE}) /\ StoreInit /\ IngestInit /\ AppInit /\ TasksInit /\ UiInit /\ GeneratorInit

SpecEmbed == InitEmbed /\ [][NextEmbed]_vars

\* the embedder before its construction, with or without an api key
NextConstruct ==
    \/ \E key \in BOOLEAN, allow_empty \in BOOLEAN, size \in 1..MaxBatchSize :
           JinaEmbedderInit(key, allow_empty, size)
    \/ \E ts \in SeqsUpTo(Texts, MaxTexts) : EmbedAsyncMany(ts)
    \/ \E t \in Texts : EmbedAsyncSingle(t)
    \/ \E vecs \in SeqsUpTo(Vectors, MaxBatchSize) : RequestSucceeds(vecs)
    \/ \E kind \in {"transient", "fatal"} : RequestFails(kind)
    \/ EmbedReturn

InitConstruct ==
    /\ EmbedFields("new", {DefaultMaxRetries}, {DefaultBatchSize}, {FALSE})
    /\ IndexInit({FALSE}) /\ StoreInit /\ IngestInit /\ AppInit /\ TasksInit /\ UiInit /\ GeneratorInit

SpecConstruct == InitConstruct /\ [][NextConstruct]_vars

\* the embedder constructed with any max_retries setting
InitRetry ==
    /\ EmbedInitWith(1..MaxRetriesSetting, 1..MaxBatchSize)
    /\ IndexInit({FALSE}) /\ StoreInit /\ IngestInit /\ AppInit /\ TasksInit /\ UiInit /\ GeneratorInit

SpecRetry == InitRetry /\ [][NextEmbed]_vars

\* ------------------------------------------------------ embedder properties
RECURSIVE Flatten(_)
Flatten(ss) == IF ss = <<>> THEN <<>> ELSE Head(ss) \o Flatten(Tail(ss))

\* the positions of the call's texts that missed the cache at lookup, in order
MissPositions == SelectSeq([i \in 1..Len(texts) |-> i], LAMBDA i : cached_results[i] = None)

\* C3: a successful embed_async_many returns one vector per input text, in
\* input order: at a position that hit the cache, the cached vector of that
\* text; at the j-th position that missed, the vector the service returned
\* for the j-th text sent, which is that position's text.
C3_LengthAndOrderPreserved ==
    (epc = "done" /\ mode = "many") =>
        /\ Len(result) = Len(texts)
        /\ Len(Flatten(requests)) = Len(MissPositions)
        /\ Len(batched_embeddings) = Len(MissPositions)
        /\ \A i \in 1..Len(texts) :
              cached_results[i] # None => result[i] = cached_results[i]
        /\ \A j \in 1..Len(MissPositions) :
              /\ Flatten(requests)[j] = texts[MissPositions[j]]
              /\ result[MissPositions[j]] = batched_embeddings[j]

\* a successful call of the longest input with a hit, and two misses whose
\* vectors differ
C3_Witness ==
    /\ epc = "done" /\ mode = "many" /\ Len(texts) = MaxTexts
    /\ \E i \in 1..Len(texts) : cached_results[i] # None
    /\ Len(batched_embeddings) >= 2
    /\ batched_embeddings[1] # batched_embeddings[2]

\* C6: no text with a cache hit at lookup is part of a request of the call,
\* and a call whose texts all hit sends no request.
C6_CachedNeverRequested ==
    /\ \A k \in 1..Len(requests) : \A j \in 1..Len(requests[k]) :
          \A i \in 1..Len(texts) :
              texts[i] = requests[k][j] => cached_results[i] = None
    /\ (\A i \in 1..Len(texts) : cached_results[i] # None) => requests = <<>>

\* a call with a hit and a miss that has sent its request and returned
C6_Witness ==
    /\ epc = "done" /\ mode = "many"
    /\ requests # <<>>
    /\ \E i \in 1..Len(texts) : cached_results[i] # None

\* C7: on return of a successful call every text of the call has a cache
\* entry equal to the vector returned for it.
C7_CacheEqualsReturned ==
    (epc = "done" /\ mode = "many") =>
        \A i \in 1..Len(texts) : cache[texts[i]] = result[i]

\* C8: the service embeds a text at most once over the embedder's lifetime.
C8_ComputedAtMostOnce == recomputed = {}

\* C9: embed_async_many([T, T]) returns two identical vectors, equal to the
\* vector a following embed_async_many([T]) returns (the cached one).
C9_SameTextSameVector ==
    (epc = "done" /\ mode = "many" /\ Len(texts) = 2 /\ texts[1] = texts[2]) =>
        /\ result[1] = result[2]
        /\ result[1] = CheckCache(cache, texts[1])

\* C10: a batch request is attempted at most max_retries times.
C10_AttemptsWithinMaxRetries == attempts <= max_retries

\* -------------------------------------------------- vector store properties
\* C4: a store constructed for a collection that exists with another
\* dimension is not constructed: whenever a store is ready, the dimension of
\* its collection is the store's vector_size.
C4_MismatchFailsConstruction == store_state = "ready" => collection_size = vector_size

\* C5: the index holds at most one point per id, with the vector and the
\* payload of the last upsert for that id, and every hit of a search carries
\* the content and the metadata of the last upsert for its id.
C5_LastWriteWins ==
    /\ \A p, q \in points : p.id = q.id => p = q
    /\ \A p \in points :
          /\ last_write[p.id].written
          /\ p.vector = last_write[p.id].vector
          /\ p.payload = last_write[p.id].payload
    /\ \A i \in 1..Len(store_ret.hits) :
          LET h == store_ret.hits[i] IN
          /\ last_write[h.id].written
          /\ h.page_content = PayloadContent(last_write[h.id].payload)
          /\ h.metadata = PayloadMetadata(last_write[h.id].payload)

\* a search that returns the point of an id an upsert had overwritten
C5_Witness ==
    /\ store_ret.op = "search"
    /\ \E i \in 1..Len(store_ret.hits) : store_ret.hits[i].id \in superseded

\* ------------------------------------------------------ ingestor properties
\* C1: none of the four cumulative counters of stats decreases in any step.
C1_StatsNeverDecrease ==
    [][\A k \in DOMAIN stats : stats'[k] >= stats[k]]_vars

\* C2: when the embed stage of an ingest call has failed, the call has raised,
\* has issued no upsert and has left the points of the index as they were when
\* it began; and no point of the index lacks a vector.
C2_EmbedFailureStoresNothing ==
    /\ embed_failed =>
          /\ ipc = "raised"
          /\ ierror = "EmbeddingError"
          /\ call_upserts = 0
          /\ points = points_before
    /\ \A p \in points : p.vector \in Vectors

\* an ingest call whose embed stage failed for chunks, on an index that holds
\* points of an earlier call
C2_Witness ==
    /\ embed_failed
    /\ chunks # <<>>
    /\ points # {}

\* ------------------------------------------- embedder properties, continued
\* C11: after a non-transient failure of a batch request the call has failed
\* with EmbeddingError: the request is not sent again, no further batch is
\* sent, and the call returns no result and writes nothing to the cache.
C11_FatalFailsImmediately ==
    failure_kind = "fatal" =>
        /\ epc = "failed"
        /\ error = "EmbeddingError"
        /\ result = <<>>
        /\ cache = cache_before

\* a call that failed on a non-transient failure of its first attempt, with
\* uncached texts that were never sent
C11_Witness ==
    /\ failure_kind = "fatal" /\ mode = "many"
    /\ attempts = 1
    /\ Len(Flatten(requests)) < Len(uncached_texts)

CeilDiv(u, bs) == (u + bs - 1) \div bs

\* C13: every request of a call holds between one and batch_size texts, the
\* requests sent so far are, concatenated, a prefix of the call's uncached
\* texts in input order, and a successful call has sent exactly the uncached
\* texts, in ceil(u / batch_size) requests.
C13_BatchesCoverUncachedInOrder ==
    mode = "many" =>
        /\ \A k \in 1..Len(requests) :
              Len(requests[k]) >= 1 /\ Len(requests[k]) <= batch_size
        /\ Len(Flatten(requests)) <= Len(uncached_texts)
        /\ Flatten(requests) = SubSeq(uncached_texts, 1, Len(Flatten(requests)))
        /\ uncached_texts = [j \in 1..Len(uncached_texts) |-> texts[MissPositions[j]]]
        /\ epc = "done" =>
              /\ Flatten(requests) = uncached_texts
              /\ Len(requests) = CeilDiv(Len(uncached_texts), batch_size)

\* a successful call of several requests, the last one not full
C13_Witness ==
    /\ epc = "done" /\ mode = "many"
    /\ Len(requests) >= 2
    /\ Len(requests[Len(requests)]) < batch_size

\* ------------------------------------------- ingestor properties, continued
\* the stages of the pipeline, in order
PipelineOrder == <<"load", "chunk", "embed", "store">>

\* C14: the stages a call has run are an initial part of load, chunk, embed,
\* store, in that order (or a failed initialize alone); every stage but the
\* last one run has succeeded; the embed request and the upsert are issued
\* only after the stages before them succeeded; a call that returns has run
\* all four.
C14_StagesInOrder ==
    /\ Len(stage_log) <= Len(PipelineOrder)
    /\ \A i \in 1..Len(stage_log) :
          \/ stage_log[i].stage = "initialize" /\ ~stage_log[i].ok /\ Len(stage_log) = 1
          \/ stage_log[i].stage = PipelineOrder[i]
    /\ \A i \in 1..(Len(stage_log) - 1) : stage_log[i].ok
    /\ ipc = "embed" => Len(stage_log) = 2 /\ stage_log[2].ok
    /\ call_upserts > 0 => Len(stage_log) = 4 /\ stage_log[3].ok
    /\ ipc = "returned" => Len(stage_log) = 4 /\ stage_log[4].ok
    /\ ipc = "raised" => ~stage_log[Len(stage_log)].ok

\* a call that has run the four stages and stored points
C14_Witness ==
    /\ ipc = "returned"
    /\ Len(stage_log) = 4
    /\ points # {}

\* C15: nothing of a failed call stays behind but the stats and the
\* components: between calls the ingestor and its embedder are idle; a call
\* that reaches the embed stage has all three components, also after a failed
\* initialize; and a call after a failed one that returns has run the four
\* stages.
C15_FailureIsPerCall ==
    /\ ipc = "idle" => epc = "idle" /\ stage_log = <<>> /\ ierror = "none" /\ chunks = <<>>
    /\ ipc \in {"embed", "returned"} =>
          ing_chunker /\ ing_embedder /\ store_state = "ready"
    /\ (last_outcome \notin {"none", "ok"} /\ ipc = "returned") =>
          /\ Len(stage_log) = 4
          /\ \A i \in 1..4 : stage_log[i].ok

\* a call that succeeds after the call before it failed in initialize
C15_Witness ==
    /\ last_outcome = "initialize"
    /\ ipc = "returned"
    /\ points # {}

\* C16: when a call has failed in the embed or the store stage, the stats are
\* those of the call's start.
C16_FailedCallNotCounted ==
    (ipc = "raised" /\ stage_log[Len(stage_log)].stage \in {"embed", "store"}) =>
        stats = stats_before

\* the files of a directory that can be read
ReadableCount(dir) ==
    Cardinality({i \in 1..Len(dir.files) : dir.files[i].supported /\ dir.files[i].ok})

\* the load stage of the running call: it succeeds exactly when some file of
\* the directory can be read, then with one document per readable file; when
\* it fails the call has raised err and no later stage has run
LoadStageContract(err) ==
    (stage_log # <<>> /\ stage_log[1].stage = "load") =>
        /\ stage_log[1].ok <=> ReadableCount(data_dir) > 0
        /\ stage_log[1].ok =>
              /\ stats.documents_processed = ReadableCount(data_dir)
              /\ stats.bytes_processed =
                    stats_before.bytes_processed + ReadableFile.size * ReadableCount(data_dir)
        /\ ~stage_log[1].ok =>
              /\ ipc = "raised" /\ ierror = err
              /\ Len(stage_log) = 1
              /\ chunks = <<>> /\ epc = "idle"
              /\ call_upserts = 0 /\ points = points_before
              /\ stats = stats_before

C18_ClearLeavesEmptyCollection ==
    clear_ret # "none" =>
        /\ clear_ret = "success"
        /\ collection_exists
        /\ points = {}
        /\ clear_before.exists => collection_size = clear_before.size

\* C19: every successful ingest of the reference corpus that follows a clear
\* ends with as many points in the index as the first such ingest.
C19_ClearIngestSameCount ==
    (ipc = "returned" /\ call_is_reference) => Cardinality(points) = first_count

\* ------------------------------------------ vector store properties, continued
\* C20: a construction of a store that succeeds leaves the collection
\* existing and its points as they were; it keeps the vector size of a
\* collection that existed, and gives one it created the store's vector_size.
C20_BootstrapCreateIfAbsent ==
    [][(store_ret.op = "none" /\ store_ret'.op = "init" /\ store_ret'.raised = "none") =>
          /\ collection_exists'
          /\ points' = points
          /\ collection_exists => collection_size' = collection_size
          /\ ~collection_exists => collection_size' = vector_size']_vars

\* a store constructed on a collection that holds points of an earlier store
C20_Witness ==
    /\ store_ret.op = "init" /\ store_ret.raised = "none"
    /\ points # {}

\* C21: a health_check raises nothing, leaves the collection and its points
\* as they were, and returns True exactly when the get_collections probe
\* succeeded.
C21_HealthCheckProbesOnly ==
    [][(store_ret.op = "none" /\ store_ret'.op = "health") =>
          /\ store_ret'.raised = "none"
          /\ store_ret'.ok = (store_ret'.probe = "ok")
          /\ UNCHANGED <<collection_exists, collection_size, points>>]_vars

\* a health_check whose probe failed, on a collection that holds points
C21_Witness ==
    /\ store_ret.op = "health"
    /\ store_ret.probe = "failed"
    /\ points # {}

C23_InvalidContentRejectedFirst ==
    [][(api_call.op = "none" /\ api_call'.op = "embed") =>
          IF \/ api_call'.content_length < MinContentLength
             \/ api_call'.content_length > MaxContentLength
          THEN /\ api_resp'.status = "ValidationError"
               /\ UNCHANGED <<evars, xvars, svars, ivars, app_ingestor>>
          ELSE api_resp'.status # "ValidationError"]_vars

\* an over-size request rejected while the index holds points and the cache
\* holds a vector
C23_Witness ==
    /\ api_call.op = "embed"
    /\ api_call.content_length > MaxContentLength
    /\ api_resp.status = "ValidationError"
    /\ points # {}
    /\ \E t \in Texts : cache[t] # None

\* C24: a successful embed_document whose request supplied an id created the
\* document with that id and answers that id; one that supplied none answers
\* a generated id.
C24_SuppliedIdIsKept ==
    (api_call.op = "embed" /\ api_resp.status = "success") =>
        IF api_call.id # NoId
        THEN api_resp.id = api_call.id /\ api_call.doc_id = Str(api_call.id)
        ELSE api_resp.id = GeneratedId

C27_UnsupportedStrategyFailsAtInitialize ==
    chunking_strategy = "bogus" =>
        /\ ~ing_chunker
        /\ ipc \in {"idle", "raised"}
        /\ ipc = "raised" =>
              /\ ierror = "ConfigurationError"
              /\ stage_log = <<[stage |-> "initialize", ok |-> FALSE]>>
        /\ chunks = <<>>
        /\ epc = "idle" /\ computed = {}
        /\ ~upsert_sent
        /\ \A k \in DOMAIN stats : stats[k] = 0

\* the second call of an ingestor with an unsupported strategy has failed
C27_Witness ==
    /\ chunking_strategy = "bogus"
    /\ ipc = "raised"
    /\ ingest_calls = 2

\* C28: a call whose directory holds a file of an unsupported extension fails
\* in the load stage with ValidationError; the file is not passed over.
C28_UnsupportedExtensionRejected ==
    (/\ stage_log # <<>> /\ stage_log[1].stage = "load"
     /\ \E i \in 1..Len(data_dir.files) : ~data_dir.files[i].supported) =>
        /\ ~stage_log[1].ok
        /\ ipc = "raised"
        /\ ierror = "ValidationError"

\* ------------------------------------------- embedder properties, continued
\* C29: a construction that fails for the lack of an api key raises
\* ConfigurationError, and an embedder without an api key sends no request
\* to the remote service.
C29_MissingKeyIsConfigurationError ==
    /\ epc = "unconstructed" => error = "ConfigurationError"
    /\ ~api_key => ~network_sent

\* ------------------------------------------------------ round trip property
\* C30: every hit of a search whose point the ingestor stored carries the
\* chunk's text as its content and the chunk's metadata as its metadata; and
\* a search with an equality filter on the chunk's metadata that returns no
\* hit means that no stored chunk has that metadata.
C30_IngestSearchRoundTrip ==
    store_ret.op = "search" =>
        /\ \A i \in 1..Len(store_ret.hits) :
              LET h == store_ret.hits[i] IN
              \A p \in points : (p.id = h.id /\ p.id \in ChunkIds) =>
                  /\ <<"text", h.page_content>> \in p.payload.top
                  /\ h.metadata = {kv \in p.payload.top : kv[1] # "text"}
        /\ (/\ store_ret.raised = "none" /\ store_ret.sent
            /\ store_ret.filter # EmptyDict /\ store_ret.hits = <<>>) =>
              ~\E p \in points : p.id \in ChunkIds /\ store_ret.filter \subseteq p.payload.top

\* ===================================== concurrent calls on the one embedder
\* Two tasks run embed_async_many on the same JinaEmbedder.  A task runs
\* without interruption between two awaits; the only awaits of the call are
\* the requests (await self._get_embeddings(batch)), so the cache lookups
\* before the first request and the merge after the last one are each one step.

\* the texts of a concurrent call: one text, two texts in either order, one
\* text twice
ConcurrentTexts == {<<"t1">>, <<"t1", "t2">>, <<"t2", "t1">>, <<"t2", "t2">>}

\* task c calls embed_async_many(ts): the cache lookups, up to the first request
TaskEmbedAsyncMany(c, ts) ==
    /\ calls[c].pc = "idle"
    /\ calls_started < MaxCalls + 1
    /\ calls_started' = calls_started + 1
    /\ LET cr == CachedResults(cache, ts)
           ut == UncachedTexts(ts, UncachedIndices(cr))
       IN
       calls' = [calls EXCEPT ![c] =
                   IF ut = <<>>
                   THEN [NoLocals EXCEPT !.pc = "done", !.texts = ts,
                                         !.cached_results = cr, !.result = cr]
                   ELSE [NoLocals EXCEPT !.pc = "request", !.texts = ts,
                                         !.cached_results = cr, !.uncached_texts = ut,
                                         !.requests = <<Batch(ut, 0, batch_size)>>,
                                         !.attempts = 1]]
    /\ UNCHANGED <<served, evars, xvars, svars, ivars, avars, uvars, gvars>>

\* the request of task c is answered with one vector per input; the task goes
\* on to its next request, or merges into the shared cache and returns
TaskRequestSucceeds(c, vecs) ==
    LET l == calls[c]
        batch == Batch(l.uncached_texts, l.batch_i, batch_size)
        be == l.batched_embeddings \o vecs
        next_i == l.batch_i + batch_size
    IN
    /\ l.pc = "request"
    /\ DOMAIN vecs = DOMAIN batch
    /\ served' = served \cup {<<batch[i], vecs[i]>> : i \in DOMAIN batch}
    /\ computed' = computed \cup Range(batch)
    /\ network_sent' = TRUE
    /\ IF next_i < Len(l.uncached_texts)
       THEN /\ calls' = [calls EXCEPT ![c].batch_i = next_i,
                                      ![c].batched_embeddings = be,
                                      ![c].attempts = 1,
                                      ![c].requests =
                                          Append(@, Batch(l.uncached_texts, next_i, batch_size))]
            /\ cache' = CacheAfterBatch(cache, batch, vecs)
       ELSE LET m == Merge(l.texts, l.cached_results, be, cache) IN
            /\ calls' = [calls EXCEPT ![c].batched_embeddings = be,
                                      ![c].result = m.result,
                                      ![c].pc = "done"]
            /\ cache' = m.cache
    /\ UNCHANGED <<calls_started, max_retries, batch_size, epc, mode, texts,
                   cached_results, uncached_texts, batch_i, batched_embeddings,
                   attempts, result, error, requests, recomputed, failure_kind,
                   cache_before, api_key, allow_empty_api_key>>
    /\ UNCHANGED <<xvars, svars, ivars, avars, uvars, gvars>>

\* the request of task c fails: it is sent again, or the task's call fails
TaskRequestFails(c, kind) ==
    /\ calls[c].pc = "request"
    /\ network_sent' = TRUE
    /\ calls' = [calls EXCEPT ![c] =
                   IF RetryAgain(kind, calls[c].attempts)
                   THEN [@ EXCEPT !.attempts = @ + 1]
                   ELSE [@ EXCEPT !.pc = "failed", !.error = "EmbeddingError"]]
    /\ UNCHANGED <<calls_started, served, cache, max_retries, batch_size, epc, mode,
                   texts, cached_results, uncached_texts, batch_i,
                   batched_embeddings, attempts, result, error, requests, computed,
                   recomputed, failure_kind, cache_before, api_key,
                   allow_empty_api_key>>
    /\ UNCHANGED <<xvars, svars, ivars, avars, uvars, gvars>>

\* task c takes the result or the exception of its call
TaskReturn(c) ==
    /\ calls[c].pc \in {"done", "failed"}
    /\ calls' = [calls EXCEPT ![c] = NoLocals]
    /\ UNCHANGED <<calls_started, served, evars, xvars, svars, ivars, avars, uvars, gvars>>

NextConcurrent ==
    \/ \E c \in CallIds, ts \in ConcurrentTexts : TaskEmbedAsyncMany(c, ts)
    \/ \E c \in CallIds, vecs \in SeqsUpTo(Vectors, MaxBatchSize) : TaskRequestSucceeds(c, vecs)
    \/ \E c \in CallIds, kind \in {"transient", "fatal"} : TaskRequestFails(c, kind)
    \/ \E c \in CallIds : TaskReturn(c)

InitConcurrent == EmbedInit /\ IndexInit({FALSE}) /\ StoreInit /\ IngestInit /\ AppInit /\ TasksInit /\ UiInit /\ GeneratorInit

SpecConcurrent == InitConcurrent /\ [][NextConcurrent]_vars

\* the positions of a call's texts that missed the cache when the call began
MissesOf(l) == SelectSeq([i \in 1..Len(l.texts) |-> i], LAMBDA i : l.cached_results[i] = None)

\* C26: under every interleaving of two embed_async_many calls on one embedder
\* (the tasks switch at the requests, their texts overlap), a call that
\* returns gives one vector per text, in the order of the texts: a cache hit
\* is the vector found at the lookup, a miss is the vector the service
\* returned for that text in this call's own requests, which were sent in the
\* order of the misses; and the cache then holds, for each text of the call,
\* one vector that the service returned for it
C26_ConcurrentCallsKeepOrderAndCache ==
    /\ \A t \in Texts : cache[t] # None => <<t, cache[t]>> \in served
    /\ \A c \in CallIds :
         LET l == calls[c]
             miss == MissesOf(l)
             sent == Flatten(l.requests)
         IN
         l.pc = "done" =>
            /\ Len(l.result) = Len(l.texts)
            /\ Len(sent) = Len(miss)
            /\ Len(l.batched_embeddings) = Len(miss)
            /\ \A i \in 1..Len(l.texts) :
                 /\ l.cached_results[i] # None => l.result[i] = l.cached_results[i]
                 /\ <<l.texts[i], l.result[i]>> \in served
                 /\ cache[l.texts[i]] \in Vectors
            /\ \A j \in 1..Len(miss) :
                 /\ sent[j] = l.texts[miss[j]]
                 /\ l.result[miss[j]] = l.batched_embeddings[j]

\* both calls have returned a result, each after sending the same text to the
\* service: each looked the text up before the other one merged
C26_Witness ==
    /\ \A c \in CallIds : calls[c].pc = "done"
    /\ \E t \in Texts : \A c \in CallIds : t \in Range(Flatten(calls[c].requests))
    /\ \E c \in CallIds : Len(calls[c].requests) > 1

\* ======================= the embed and store stages behind any provider
\* _generate_embeddings awaits self.embedder.embed_async_many(texts) of
\* whatever embedder get_embedder(name) gave, and builds the id -> vector
\* mapping from what comes back; _store_chunks_with_embeddings builds the
\* points from the chunks and that mapping.  Here the two stages are run on
\* every chunk list and every returned list of vectors: chunk lists of up to
\* two chunks, with the same or different ids and texts

StageChunks ==
    SeqsUpTo([id : ChunkIds, text : ChunkTexts, metadata : {ChunkMetadata}],
             Cardinality(ChunkIds))

\* the await of embed_async_many in _generate_embeddings ends with a list of
\* vectors, of any length
ProviderReturns(embeddings) ==
    /\ ipc = "embed" /\ epc = "request"
    /\ epc' = "done"
    /\ result' = embeddings
    /\ served' = served \cup {<<texts[i], embeddings[i]>> :
                                 i \in 1..Min(Len(texts), Len(embeddings))}
    /\ UNCHANGED <<cache, max_retries, batch_size, mode, texts, cached_results,
                   uncached_texts, batch_i, batched_embeddings, attempts, error,
                   requests, computed, recomputed, failure_kind, cache_before,
                   api_key, allow_empty_api_key, network_sent>>
    /\ UNCHANGED <<calls, calls_started, xvars, svars, ivars, avars, uvars, gvars>>

NextStages ==
    \/ \E split \in StageChunks : IngestDocuments(ReferenceDir, split, TRUE, TRUE, TRUE)
    \/ \E embeddings \in SeqsUpTo(Vectors, Cardinality(ChunkIds)) : ProviderReturns(embeddings)
    \/ \E server_ok \in BOOLEAN : IngestStore(server_ok)
    \/ IngestReturn

InitStages == GetEmbedderInit /\ IndexInit(BOOLEAN) /\ StoreInit /\ IngestInit /\ AppInit /\ TasksInit /\ UiInit /\ GeneratorInit

SpecStages == InitStages /\ [][NextStages]_vars

\* C31: when an ingest call has succeeded, the index holds for every chunk of
\* the call a point of the chunk's id that carries the chunk's text and a
\* vector the embedder returned for that text: no chunk was left out, whatever
\* the number of vectors the embedder returned and whatever the chunks' ids
C31_OnePointPerChunk ==
    ipc = "returned" =>
        \A i \in 1..Len(chunks) :
            \E p \in points :
                /\ p.id = chunks[i].id
                /\ <<"text", chunks[i].text>> \in p.payload.top
                /\ <<chunks[i].text, p.vector>> \in served

\* C32: whenever get_ingestor has returned an ingestor to embed_document, that
\* ingestor's chunker, embedder and vector store are all initialised: a
\* get_ingestor call that follows one in which initialize failed initialises
\* again instead of returning the instance the failed call left behind
C32_IngestorHandedOutInitialised ==
    (api_call.op = "embed" /\ api_call.doc_id # "") =>
        /\ ing_chunker
        /\ ing_embedder
        /\ store_state = "ready"

\* C33: when a call has failed, the cache is exactly the cache the call began
\* with: the vectors of the batches that succeeded before the failing one are
\* not in it, the cache being written only by the merge that follows the
\* last batch
C33_FailedCallLeavesCache ==
    epc = "failed" => cache = cache_before

\* a call of several batches that failed after a batch of it had succeeded
C33_Witness ==
    /\ epc = "failed"
    /\ mode = "many"
    /\ batched_embeddings # <<>>
    /\ Len(requests) > 1

\* ------------------------------------------------- add_embeddings property
\* a store that is constructed, adds texts without metadatas, with ids for
\* all, some or none of them, and deletes points
NextAdd ==
    \/ \E size \in Dims, emb \in BOOLEAN, configured \in BOOLEAN :
           QdrantStoreInit(size, emb, configured)
    \/ \E n \in 0..MaxPoints : \E ts \in [1..n -> Texts] :
           \E ids \in SeqsUpTo(CallerIds, n) : AddTexts(ts, <<>>, ids)
    \/ \E id \in StoreIds : Delete(<<id>>)
    \/ StoreReturn

InitAdd == EmbedInit /\ IndexInit(BOOLEAN) /\ StoreInit /\ IngestInit /\ AppInit /\ TasksInit /\ UiInit /\ GeneratorInit

SpecAdd == InitAdd /\ [][NextAdd]_vars

\* the ids of the points of S that are positional indices
PositionalPoints(S) == {p \in S : p.id \in PositionalIds}

\* C34: an add that returns gives one id per text: the caller's id where the
\* ids argument has one at that position, the position "0", "1", ... where it
\* has none; the index then holds a point of each returned id, carrying the
\* text of the last position that id was returned for, and every point of
\* another id is as it was.  So an add of n texts without ids on an index
\* whose positional points are "0" .. "m-1" leaves max(m, n) of them
C34_AddReturnsIdPerText ==
    [][(store_ret.op = "none" /\ store_ret'.op = "add" /\ store_ret'.raised = "none") =>
          LET ts == store_ret'.texts
              ids_in == store_ret'.arg_ids
              out == store_ret'.ids
              n == Len(ts)
              m == Cardinality(PositionalPoints(points))
          IN
          /\ Len(out) = n
          /\ \A i \in 1..n :
                /\ out[i] = (IF i <= Len(ids_in) THEN ids_in[i] ELSE ToString(i - 1))
                /\ \E p \in points' :
                      /\ p.id = out[i]
                      /\ (\A j \in (i + 1)..n : out[j] # out[i]) => p.payload.content = ts[i]
          /\ \A p \in points : (\A i \in 1..n : out[i] # p.id) => p \in points'
          /\ \A p \in points' : (\A i \in 1..n : out[i] # p.id) => p \in points
          /\ (/\ ids_in = <<>>
              /\ {p.id : p \in PositionalPoints(points)} = {ToString(i) : i \in 0..(m - 1)}) =>
                Cardinality(PositionalPoints(points')) = (IF m >= n THEN m ELSE n)
      ]_vars

\* an add of one text without ids has returned on an index that held the
\* points "0" and "1" of an earlier add: it has overwritten the point "0" and
\* left the point "1"
C34_Witness ==
    /\ store_ret.op = "add" /\ store_ret.raised = "none"
    /\ store_ret.arg_ids = <<>>
    /\ Len(store_ret.texts) = 1
    /\ "0" \in superseded
    /\ {p.id : p \in points} = {"0", "1"}

\* C35: a health request made while the server answers the store's probe
\* reports the vector store as healthy; and the overall status is healthy
\* exactly when every reported subsystem is healthy, degraded otherwise
C35_ReachableStoreReportedHealthy ==
    api_call.op = "health" =>
        /\ api_call.probe = "ok" => <<"vector_store", "healthy">> \in api_resp.services
        /\ api_resp.status =
              (IF \A e \in api_resp.services : e[2] = "healthy" THEN "healthy" ELSE "degraded")

\* ======================================== the upload page: chunk_text
\* chunk_text(text, max_size) of ui/streamlit_app.py on texts that are
\* non-empty sequences of characters: a letter, a full stop, a space, a newline

Chars == {"a", ".", " ", "\n"}
\* the longest text and the largest max_size tried
MaxTextLen == 4
MaxSizeArg == 3

ParagraphBreak == <<"\n", "\n">>

\* str.split(sep): the pieces between the occurrences of sep, found from the
\* left; cur is the piece being read
RECURSIVE SplitFrom(_, _, _)
SplitFrom(s, sep, cur) ==
    IF s = <<>> THEN <<cur>>
    ELSE IF Len(s) >= Len(sep) /\ SubSeq(s, 1, Len(sep)) = sep
         THEN <<cur>> \o SplitFrom(SubSeq(s, Len(sep) + 1, Len(s)), sep, <<>>)
         ELSE SplitFrom(Tail(s), sep, Append(cur, Head(s)))

Split(s, sep) == SplitFrom(s, sep, <<>>)

\* str.replace(old, new): every occurrence of old, found from the left
RECURSIVE Replace(_, _, _)
Replace(s, old, new) ==
    IF s = <<>> THEN <<>>
    ELSE IF Len(s) >= Len(old) /\ SubSeq(s, 1, Len(old)) = old
         THEN new \o Replace(SubSeq(s, Len(old) + 1, Len(s)), old, new)
         ELSE <<Head(s)>> \o Replace(Tail(s), old, new)

\* sentences = paragraph.replace(". ", ".\n").split("\n")
Sentences(paragraph) == Split(Replace(paragraph, <<".", " ">>, <<".", "\n">>), <<"\n">>)

\* one turn of either loop body for a sentence or a paragraph that is not
\* split further; acc = [chunks, current_chunk]
AddPiece(acc, piece, max_size) ==
    IF Len(acc.current_chunk) + Len(piece) + 2 <= max_size
    THEN [acc EXCEPT !.current_chunk =
              (IF @ # <<>> /\ piece # <<>> THEN @ \o ParagraphBreak ELSE @) \o piece]
    ELSE [chunks |-> Append(acc.chunks, acc.current_chunk), current_chunk |-> piece]

RECURSIVE AddPieces(_, _, _)
AddPieces(acc, pieces, max_size) ==
    IF pieces = <<>> THEN acc
    ELSE AddPieces(AddPiece(acc, Head(pieces), max_size), Tail(pieces), max_size)

\* the loop over the paragraphs: a paragraph longer than max_size goes in by
\* sentences
RECURSIVE AddParagraphs(_, _, _)
AddParagraphs(acc, paragraphs, max_size) ==
    IF paragraphs = <<>> THEN acc
    ELSE LET paragraph == Head(paragraphs) IN
         AddParagraphs(IF Len(paragraph) > max_size
                       THEN AddPieces(acc, Sentences(paragraph), max_size)
                       ELSE AddPiece(acc, paragraph, max_size),
                       Tail(paragraphs), max_size)

\* chunk_text(text, max_size)
ChunkTextOf(text, max_size) ==
    IF Len(text) <= max_size THEN <<text>>
    ELSE LET acc == AddParagraphs([chunks |-> <<>>, current_chunk |-> <<>>],
                                  Split(text, ParagraphBreak), max_size)
         IN IF acc.current_chunk # <<>> THEN Append(acc.chunks, acc.current_chunk)
            ELSE acc.chunks

\* a call of chunk_text
ChunkText(text, max_size) ==
    /\ ui_pc = "idle"
    /\ ui_pc' = "done"
    /\ ui_text' = text
    /\ ui_max_size' = max_size
    /\ ui_chunks' = ChunkTextOf(text, max_size)
    /\ UNCHANGED <<evars, xvars, svars, ivars, avars, cvars, gvars>>

\* the caller has taken the chunks
ChunkTextReturn ==
    /\ ui_pc = "done"
    /\ ui_pc' = "idle"
    /\ UNCHANGED <<ui_text, ui_max_size, ui_chunks>>
    /\ UNCHANGED <<evars, xvars, svars, ivars, avars, cvars, gvars>>

NextChunk ==
    \/ \E text \in SeqsUpTo(Chars, MaxTextLen) \ {<<>>}, max_size \in 1..MaxSizeArg :
           ChunkText(text, max_size)
    \/ ChunkTextReturn

InitChunk ==
    GetEmbedderInit /\ IndexInit({FALSE}) /\ StoreInit /\ IngestInit /\ AppInit /\ TasksInit
        /\ UiInit /\ GeneratorInit

SpecChunk == InitChunk /\ [][NextChunk]_vars

\* C36: every chunk chunk_text returns is non-empty and at most max_size
\* characters long, whatever the non-empty text and the max_size
C36_ChunksNonEmptyAndBounded ==
    ui_pc = "done" =>
        \A i \in 1..Len(ui_chunks) :
            /\ ui_chunks[i] # <<>>
            /\ Len(ui_chunks[i]) <= ui_max_size

\* ================================================= the answer generator
\* LLMGenerator.generate_for_state and astream_for_state.  A string is a
\* sequence of atoms.  An atom is a piece of plain text, or a whole
\* server-sent-event line "data: ..." whose payload is a JSON completion chunk
\* with a delta content, the marker [DONE], or text that is not JSON

\* the longest stream the provider delivers
MaxStreamLen == 2

Ch(c) == [k |-> "ch", c |-> c, body |-> <<>>]
SseLine(kind, content) == [k |-> "sse", c |-> kind, body |-> content]

FallbackAnswer == <<Ch("I don't have enough information to answer that question.")>>
ErrorAnswer == <<Ch("I encountered an error while generating a response.")>>

\* the delta contents a completion chunk carries: text, nothing, or text that
\* is itself a "data: ..." line
PlainContents == {<<Ch("a")>>, <<Ch("b")>>}
DataLineContent == <<SseLine("json", <<Ch("a")>>)>>
Contents == PlainContents \cup {<<>>, DataLineContent}

\* the chunks of the provider's stream: data lines, and a line that is none
ProviderChunks ==
    {<<SseLine("json", c)>> : c \in Contents}
        \cup {<<SseLine("done", <<>>)>>, <<SseLine("bad", <<>>)>>, <<Ch("a")>>}

\* _extract_streaming_content(chunk): the delta content of a "data: " line
\* that parses as JSON, "" for [DONE], for a parse error and for any other line
ExtractStreamingContent(chunk) ==
    IF chunk # <<>> /\ Head(chunk).k = "sse" /\ Head(chunk).c = "json"
    THEN Head(chunk).body
    ELSE <<>>

\* the completion responses of a call that does not stream: the content of
\* choices[0].message, or what _extract_content makes of another response
CompletionContents == {"text", "empty", "no_choices", "null"}

\* _extract_content(response): the content; "" when it is missing or the
\* response has no choices; None when the content is null
ExtractContent(response) ==
    IF response = "text" THEN [none |-> FALSE, text |-> <<Ch("a")>>]
    ELSE IF response = "null" THEN [none |-> TRUE, text |-> <<>>]
    ELSE [none |-> FALSE, text |-> <<>>]

ExceptPropagates(st, e) == [state |-> st, raised |-> TRUE]
\* except Exception as e: the error is recorded and the error answer is set
ExceptHandler(st, e) ==
    [state |-> [st EXCEPT !.metadata = @ \cup {"generator_error"},
                          !.response_set = TRUE,
                          !.response = ErrorAnswer],
     raised |-> FALSE]

\* if not state.selected_documents: the fallback answer, and return
NeedsAdapter(docs) == docs

\* generate_for_state / astream_for_state up to the await of
\* chat_completion; op: "generate" or "astream"
GeneratorCall(op, docs) ==
    /\ gpc = "idle"
    /\ stream' = <<>>
    /\ buffer' = <<>>
    /\ received' = <<>>
    /\ gfailure' = "none"
    /\ graised' = FALSE
    /\ IF NeedsAdapter(docs)
       THEN /\ gstate' = [NoState EXCEPT !.selected_documents = docs]
            /\ adapter_calls' = 1
            /\ yielded' = <<>>
            /\ gpc' = op \o "_await"
       ELSE /\ gstate' = [NoState EXCEPT !.selected_documents = docs,
                                         !.response_set = TRUE,
                                         !.response = FallbackAnswer]
            /\ adapter_calls' = 0
            /\ yielded' = (IF op = "astream" THEN <<FallbackAnswer>> ELSE <<>>)
            /\ gpc' = op \o "_done"
    /\ UNCHANGED <<evars, xvars, svars, ivars, avars, cvars, uvars>>

\* chat_completion raises
AdapterFails ==
    /\ gpc \in {"generate_await", "astream_await"}
    /\ gfailure' = "adapter"
    /\ LET h == ExceptHandler(gstate, "adapter") IN
       /\ gstate' = h.state
       /\ graised' = h.raised
       /\ yielded' = (IF gpc = "astream_await" /\ ~h.raised
                      THEN Append(yielded, h.state.response) ELSE yielded)
    /\ gpc' = (IF gpc = "generate_await" THEN "generate_done" ELSE "astream_done")
    /\ UNCHANGED <<stream, buffer, received, adapter_calls>>
    /\ UNCHANGED <<evars, xvars, svars, ivars, avars, cvars, uvars>>

\* chat_completion returns a completion: the rest of generate_for_state.
\* len(response) of a None content is a TypeError inside the try
AdapterResponds(response) ==
    /\ gpc = "generate_await"
    /\ LET content == ExtractContent(response)
           st == [gstate EXCEPT !.response_set = TRUE,
                                !.response = content.text,
                                !.metadata = @ \cup {"generator_mode"}]
           h == ExceptHandler(st, "TypeError")
       IN
       IF content.none
       THEN /\ gstate' = h.state
            /\ graised' = h.raised
            /\ gfailure' = "content"
       ELSE /\ gstate' = st
            /\ UNCHANGED <<graised, gfailure>>
    /\ gpc' = "generate_done"
    /\ UNCHANGED <<stream, buffer, yielded, received, adapter_calls>>
    /\ UNCHANGED <<evars, xvars, svars, ivars, avars, cvars, uvars>>

\* chat_completion returns the provider's stream; generate wraps it in
\* _stream_content
AdapterStreams(lines) ==
    /\ gpc = "astream_await"
    /\ stream' = lines
    /\ gpc' = "astream_loop"
    /\ UNCHANGED <<gstate, buffer, yielded, received, adapter_calls, gfailure, graised>>
    /\ UNCHANGED <<evars, xvars, svars, ivars, avars, cvars, uvars>>

\* the provider delivers its next chunk.  _stream_content extracts its
\* content and, when that is not empty, hands it to the loop of
\* astream_for_state, which extracts the content of what it was handed and,
\* when that is not empty, extends the buffer and yields a copy of the state
StreamDelivers ==
    /\ gpc = "astream_loop" /\ stream # <<>>
    /\ LET fragment == ExtractStreamingContent(Head(stream))
           content == ExtractStreamingContent(fragment)
       IN
       /\ received' = received \o fragment
       /\ IF fragment # <<>> /\ content # <<>>
          THEN /\ buffer' = buffer \o content
               /\ yielded' = Append(yielded, buffer \o content)
          ELSE UNCHANGED <<buffer, yielded>>
    /\ stream' = Tail(stream)
    /\ UNCHANGED <<gpc, gstate, adapter_calls, gfailure, graised>>
    /\ UNCHANGED <<evars, xvars, svars, ivars, avars, cvars, uvars>>

\* the provider's stream raises in place of its next chunk
StreamFails ==
    /\ gpc = "astream_loop"
    /\ gfailure' = "stream"
    /\ LET h == ExceptHandler(gstate, "stream") IN
       /\ gstate' = h.state
       /\ graised' = h.raised
       /\ yielded' = (IF h.raised THEN yielded ELSE Append(yielded, h.state.response))
    /\ gpc' = "astream_done"
    /\ UNCHANGED <<stream, buffer, received, adapter_calls>>
    /\ UNCHANGED <<evars, xvars, svars, ivars, avars, cvars, uvars>>

\* the stream has ended: the final state update, which is not yielded
StreamEnds ==
    /\ gpc = "astream_loop" /\ stream = <<>>
    /\ gstate' = [gstate EXCEPT !.response_set = TRUE, !.response = buffer,
                                !.metadata = @ \cup {"generator_mode"}]
    /\ gpc' = "astream_done"
    /\ UNCHANGED <<stream, buffer, yielded, received, adapter_calls, gfailure, graised>>
    /\ UNCHANGED <<evars, xvars, svars, ivars, avars, cvars, uvars>>

\* the caller has taken the state, or the states yielded
GeneratorReturn ==
    /\ gpc \in {"generate_done", "astream_done"}
    /\ gpc' = "idle"
    /\ UNCHANGED <<gstate, stream, buffer, yielded, received, adapter_calls, gfailure,
                   graised>>
    /\ UNCHANGED <<evars, xvars, svars, ivars, avars, cvars, uvars>>

NextGenerate ==
    \/ \E op \in {"generate", "astream"}, docs \in BOOLEAN : GeneratorCall(op, docs)
    \/ AdapterFails
    \/ \E response \in CompletionContents : AdapterResponds(response)
    \/ \E lines \in SeqsUpTo(ProviderChunks, MaxStreamLen) : AdapterStreams(lines)
    \/ StreamDelivers
    \/ StreamFails
    \/ StreamEnds
    \/ GeneratorReturn

InitGenerate ==
    GetEmbedderInit /\ IndexInit({FALSE}) /\ StoreInit /\ IngestInit /\ AppInit /\ TasksInit
        /\ UiInit /\ GeneratorInit

SpecGenerate == InitGenerate /\ [][NextGenerate]_vars

\* s is a prefix of t
IsPrefix(s, t) == Len(s) <= Len(t) /\ SubSeq(t, 1, Len(s)) = s

\* C37: an astream_for_state call that has ended has yielded at least one
\* state; the response of each yielded state is a prefix of the response of
\* the next; and the response of the last is the concatenation of the content
\* fragments the stream delivered
C37_StreamYieldsGrowingResponses ==
    gpc = "astream_done" =>
        /\ Len(yielded) >= 1
        /\ \A i \in 1..(Len(yielded) - 1) : IsPrefix(yielded[i], yielded[i + 1])
        /\ gfailure = "none" /\ gstate.selected_documents =>
              yielded[Len(yielded)] = received

\* C38: a generate_for_state call that has ended has not raised and has set
\* the response of the state it returns; without selected documents the
\* response is the fallback answer and chat_completion was not called; when
\* chat_completion failed, the metadata holds generator_error and the response
\* is the error answer
C38_GenerateForStateAlwaysAnswers ==
    gpc = "generate_done" =>
        /\ ~graised
        /\ gstate.response_set
        /\ ~gstate.selected_documents =>
              gstate.response = FallbackAnswer /\ adapter_calls = 0
        /\ gfailure = "adapter" =>
              "generator_error" \in gstate.metadata /\ gstate.response = ErrorAnswer

\* a generate_for_state call with selected documents whose chat_completion
\* call failed
C38_Witness ==
    /\ gpc = "generate_done"
    /\ gstate.selected_documents
    /\ adapter_calls = 1
    /\ gfailure = "adapter"

====
